---- MODULE Spec2Model ----
(***************************************************************************)
(* The automation scheduler (automation/scheduler), its crash-safe journal *)
(* (automation/journal.rs) and the worker loop that owns them              *)
(* (api/automation/worker.rs).                                             *)
(*                                                                         *)
(* Paths and idempotency keys are sequences of one-character strings, so   *)
(* that to_ascii_lowercase, format!("{path}:{epoch}") and starts_with are  *)
(* computed as the code computes them.                                     *)
(***************************************************************************)
EXTENDS Integers, Sequences, FiniteSets, TLC

VARIABLES
    alive,                 \* a process owning a scheduler exists
    state,                 \* AutoScheduler.state
    queue,                 \* AutoScheduler.queue
    excluded_paths,        \* AutoScheduler.config.excluded_paths
    journal,               \* JournalWriter.pending
    backoff_until,         \* AutoScheduler.backoff_until: <<>> or <<delay in s>>
    consecutive_failures,  \* AutoScheduler.consecutive_failures
    settle_started,        \* AutoScheduler.settle_started is Some
    needs_persist,         \* AutoScheduler.needs_persist
    file,                  \* the file at the journal path: <<>> or <<contents>>
    tmp,                   \* the sibling .json.tmp file: <<>> or <<contents>>
    flush_pc,              \* position inside JournalWriter::flush
    now,                   \* SystemTime::now() in epoch seconds
    ret,                   \* the last call on the scheduler and what it returned
    next_id,               \* number of AutomationJob values built so far
    restarts,              \* number of restore_or_new calls so far
    committed,             \* entry list of the last flush whose rename ran
    pre,                   \* queue and journal/file agreement when the process last stopped
    wpc,                   \* position of auto_loop
    active,                \* auto_loop's active_compression: <<>> or <<job>>
    pending,               \* EventCoalescer.pending: path -> <<>> or <<PendingEvent>>
    clock,                 \* Instant::now() as the coalescer reads it
    settled,               \* what the last drain_settled returned
    last_ingest,           \* per path, the ingest not yet answered by a settled event
    counters,              \* EngineCounters: the four atomics the engine and the reporter share
    done,                  \* ProgressReporter.done
    stop,                  \* ProgressReporter.stop
    rep_pc,                \* position of reporter_loop
    seen,                  \* what the current iteration of reporter_loop has loaded so far
    last_emitted,          \* reporter_loop's last_emitted: <<>> or <<emit_key>>
    baseline_pending,      \* reporter_loop's baseline_pending
    chan,                  \* the bounded(1) channel: <<>> or <<CompressionProgress>>
    eng_pc,                \* position of the thread that owns the ProgressReporter
    sent,                  \* snapshots sent so far, and how many of them were complete
    received,              \* snapshots the consumer took, and how many of them were complete
    busy,                  \* OperationLock.busy
    cancelled,             \* CancellationToken.cancelled, shared by an engine and its clones
    op_pc,                 \* per engine handle, the position of its operation
    manifest,              \* per engine handle, files.len() of its operation
    files_left,            \* per engine handle, files of the manifest not started yet
    op_result,             \* per engine handle, the result of its operation
    files_done,            \* the files_processed counter the handles share
    cancel_hit,            \* per engine handle, cancel was called before or during its operation
    ops_started,           \* number of operations that have asked for the gate
    idle_detector,         \* auto_loop's IdleDetector: its config and idle_since
    idle_now,              \* Instant::now() as the idle detector reads it
    active_compression,    \* auto_loop's active job: <<>> or <<[cancelled |-> its token]>>
    iteration,             \* what the last pass of auto_loop's loop body was given
    game_watcher,          \* the fields of the worker loop's GameWatcher
    watcher_threads,       \* number of watcher_worker threads that have not ended
    watcher_ret,           \* the last call on the GameWatcher and how it went
    ACTIVE,                \* api::compression::ACTIVE: <<>> or <<the call whose token it holds>>
    api_pc,                \* per compress_game call, its position
    api_token,             \* per compress_game call, whether its engine's token is cancelled
    api_result,            \* per compress_game call, what handle.result.recv().ok() gave
    api_ret,               \* per compress_game call, what it returned
    ACTIVE_AUTO,           \* api::automation::ACTIVE_AUTO: <<>> or <<the worker it holds>>
    auto_loops,            \* per worker thread spawned so far, how far its auto_loop is
    auto_pc,               \* per caller of the automation API, the handle its stop took
    auto_ret,              \* per caller of the automation API, what its last call returned
    LEARNED_GAMES,         \* known_games::LEARNED_GAMES: the set behind the RwLock
    SAVE_QUEUE,            \* known_games::SAVE_QUEUE: "uninit", "Some" or "None"
    save_rx,               \* the snapshots in the sync_channel(1) of the writer thread
    learn_pc,              \* per caller of learn_directstorage_game, its position
    games_snapshot,        \* per caller, the clone of the set it took under the lock
    writer_pc,             \* the position of save_worker
    latest,                \* recv_latest_snapshot's latest: <<>> or <<a snapshot>>
    learned_file           \* the names in learned_directstorage_games.json

core_vars == <<alive, state, queue, excluded_paths, journal, backoff_until,
               consecutive_failures, settle_started, needs_persist, file, tmp,
               flush_pc, now, ret, next_id, restarts, committed, pre, wpc, active>>

coal_vars == <<pending, clock, settled, last_ingest>>

rep_vars == <<counters, done, stop, rep_pc, seen, last_emitted, baseline_pending,
              chan, eng_pc, sent, received>>

eng_vars == <<busy, cancelled, op_pc, manifest, files_left, op_result, files_done,
              cancel_hit, ops_started>>

idle_vars == <<idle_detector, idle_now, active_compression, iteration>>

gw_vars == <<game_watcher, watcher_threads, watcher_ret>>

api_vars == <<ACTIVE, api_pc, api_token, api_result, api_ret>>

auto_vars == <<ACTIVE_AUTO, auto_loops, auto_pc, auto_ret>>

learn_vars == <<LEARNED_GAMES, SAVE_QUEUE, save_rx, learn_pc, games_snapshot, writer_pc,
                latest, learned_file>>

\* the state of the components modelled apart from the scheduler and its worker
comp_vars == <<coal_vars, rep_vars, eng_vars, idle_vars, gw_vars, api_vars, auto_vars,
               learn_vars>>

\* what a step of one component leaves alone
not_coal == <<core_vars, rep_vars, eng_vars, idle_vars, gw_vars, api_vars, auto_vars, learn_vars>>
not_rep == <<core_vars, coal_vars, eng_vars, idle_vars, gw_vars, api_vars, auto_vars, learn_vars>>
not_eng == <<core_vars, coal_vars, rep_vars, idle_vars, gw_vars, api_vars, auto_vars, learn_vars>>
not_idle == <<core_vars, coal_vars, rep_vars, eng_vars, gw_vars, api_vars, auto_vars, learn_vars>>
not_gw == <<core_vars, coal_vars, rep_vars, eng_vars, idle_vars, api_vars, auto_vars, learn_vars>>
not_auto == <<core_vars, coal_vars, rep_vars, eng_vars, idle_vars, gw_vars, api_vars, learn_vars>>
not_api == <<core_vars, coal_vars, rep_vars, eng_vars, idle_vars, gw_vars, auto_vars, learn_vars>>
not_learn == <<core_vars, coal_vars, rep_vars, eng_vars, idle_vars, gw_vars, api_vars, auto_vars>>

vars == <<core_vars, comp_vars>>

sched_vars == <<state, queue, excluded_paths, journal, backoff_until,
                consecutive_failures, settle_started, needs_persist, next_id>>

disk_vars == <<file, tmp, flush_pc, committed>>

\* ---------------------------------------------------------------- bounds

MaxEpoch == 1
MaxJobs == 2
MaxFailures == 1
MaxRestarts == 1
\* the coalescer's cooldown and the last reading of its clock, in ticks
CooldownTicks == 2
MaxClock == 4
\* the largest value the model lets a file counter and a byte counter reach
MaxFiles == 2
MaxBytes == 1
\* the longest manifest of an operation and the number of operations started
MaxManifest == 2
MaxOps == 3
\* the last reading of the idle detector's clock, in seconds
MaxIdleNow == 4
\* the longest run of consecutive failures, where the backoff has been capped twice
MaxBackoffFailures == 7
\* the installs of the pruning runs: two more than the finished jobs that are kept
MaxPruneJobs == 10
\* the Failed jobs, and the Skipped jobs, the queue of a pruning run holds at once
MaxPruneOther == 1
\* the worker threads start_auto_compression spawns in a run
MaxAutoStarts == 3

\* ------------------------------------------------------ program constants

MAX_QUEUE_SIZE == 64
MAX_FINISHED_JOBS == 8
INITIAL_BACKOFF == 60
MAX_BACKOFF == 1800

\* ------------------------------------------------------------- the inputs

GamePaths == { <<"G">>, <<"g">>, <<"H">>, <<"X">> }

\* the game folders raw events are ingested for
CoalescedPaths == { <<"G">>, <<"H">> }

\* the folders the worker's watcher reports
WatchedPaths == { <<"G">>, <<"g">>, <<"X">> }

ExcludedChoices == { { <<"x">> } }

WatchEventKinds == { "GameInstalled", "GameModified", "GameUninstalled" }

PendingStatuses == { "Pending", "WaitingForSettle", "WaitingForIdle" }

TerminalStatuses == { "Completed", "Failed", "Skipped" }

\* ------------------------------------------------------- string helpers

ToLowerChar(c) ==
    CASE c = "G" -> "g"
      [] c = "H" -> "h"
      [] c = "X" -> "x"
      [] OTHER -> c

to_ascii_lowercase(s) == [i \in 1..Len(s) |-> ToLowerChar(s[i])]

DigitChar(d) ==
    CASE d = 0 -> "0" [] d = 1 -> "1" [] d = 2 -> "2" [] d = 3 -> "3"
      [] d = 4 -> "4" [] d = 5 -> "5" [] d = 6 -> "6" [] d = 7 -> "7"
      [] d = 8 -> "8" [] OTHER -> "9"

RECURSIVE Decimal(_)
Decimal(n) ==
    IF n < 10 THEN <<DigitChar(n)>>
    ELSE Decimal(n \div 10) \o <<DigitChar(n % 10)>>

starts_with(s, prefix) ==
    /\ Len(prefix) <= Len(s)
    /\ SubSeq(s, 1, Len(prefix)) = prefix

FormatKey(path_str, epoch) == path_str \o <<":">> \o Decimal(epoch)

\* ------------------------------------------------------------ the journal

JournalEventKindOf(kind) ==
    CASE kind = "NewInstall" -> "NewInstall"
      [] kind = "Reconcile" -> "Reconcile"
      [] OTHER -> "Opportunistic"

JobKindOf(event_kind) ==
    CASE event_kind = "NewInstall" -> "NewInstall"
      [] event_kind = "Reconcile" -> "Reconcile"
      [] OTHER -> "Opportunistic"

with_idempotency_key(path, kind, key) ==
    [game_path |-> path, event_kind |-> JournalEventKindOf(kind), idempotency_key |-> key]

HasKey(entries, key) == \E i \in 1..Len(entries) : entries[i].idempotency_key = key

\* insert without the test for the key
insert_always(entries, entry) == Append(entries, entry)

insert(entries, entry) ==
    IF HasKey(entries, entry.idempotency_key) THEN entries ELSE Append(entries, entry)

\* remove that removes no entry
remove_nothing(entries, key) == entries

remove(entries, key) ==
    LET Keep(e) == e.idempotency_key # key
    IN SelectSeq(entries, Keep)

remove_by_prefix(entries, prefix) ==
    LET Keep(e) == ~starts_with(e.idempotency_key, prefix)
    IN SelectSeq(entries, Keep)

RECURSIVE MergeLoaded(_, _)
MergeLoaded(entries, loaded) ==
    IF loaded = <<>> THEN entries
    ELSE MergeLoaded(insert(entries, Head(loaded)), Tail(loaded))

\* load_from_path: Err when the file is missing or does not parse
LoadFromPath == IF file # <<>> /\ file[1].whole THEN <<file[1].data>> ELSE <<>>

\* load: Ok(added) with the merged list, or Err
load(entries) ==
    IF LoadFromPath = <<>> THEN [ok |-> FALSE, count |-> 0, entries |-> entries]
    ELSE LET merged == MergeLoaded(entries, LoadFromPath[1])
         IN [ok |-> TRUE, count |-> Len(merged) - Len(entries), entries |-> merged]

\* ---------------------------------------------------------- the scheduler

IsPending(j) == j.status \in PendingStatuses

IsFinished(j) == j.status \in TerminalStatuses

\* a has_pending_jobs that finds a pending job in every queue
has_pending_jobs_always(q) == TRUE

has_pending_jobs(q) == \E i \in 1..Len(q) : IsPending(q[i])

has_active_job(q) == \E i \in 1..Len(q) : q[i].status = "Compressing"

\* position of the first TRUE in hits (a test applied to each job), 0 when there is none
FirstIndex(hits) ==
    IF \E i \in 1..Len(hits) : hits[i]
    THEN CHOOSE i \in 1..Len(hits) : hits[i] /\ \A k \in 1..(i - 1) : ~hits[k]
    ELSE 0

RemoveAt(q, idx) == SubSeq(q, 1, idx - 1) \o SubSeq(q, idx + 1, Len(q))

enqueue_job(q, job) ==
    LET NotCompressing(j) == j.status # "Compressing"
        idx == FirstIndex([i \in 1..Len(q) |-> NotCompressing(q[i])])
        kept == IF Len(q) >= MAX_QUEUE_SIZE /\ idx # 0 THEN RemoveAt(q, idx) ELSE q
    IN Append(kept, job)

\* the first ready job whatever its kind
next_ready_job(q) ==
    LET Ready(j) == j.status \in {"Pending", "WaitingForIdle"}
    IN FirstIndex([i \in 1..Len(q) |-> Ready(q[i])])

\* index of the job tick hands out, 0 when no job is ready
next_pending_job(q) ==
    LET Ready(j) == j.status \in {"Pending", "WaitingForIdle"}
        ReadyReconcile(j) == Ready(j) /\ j.kind = "Reconcile"
        ReadyNewInstall(j) == Ready(j) /\ j.kind = "NewInstall"
        reconcile == FirstIndex([i \in 1..Len(q) |-> ReadyReconcile(q[i])])
        new_install == FirstIndex([i \in 1..Len(q) |-> ReadyNewInstall(q[i])])
    IN IF reconcile # 0 THEN reconcile
       ELSE IF new_install # 0 THEN new_install
       ELSE FirstIndex([i \in 1..Len(q) |-> Ready(q[i])])

RECURSIVE DropFinished(_, _)
DropFinished(q, to_remove) ==
    IF q = <<>> \/ to_remove = 0 THEN q
    ELSE IF IsFinished(Head(q)) THEN DropFinished(Tail(q), to_remove - 1)
    ELSE <<Head(q)>> \o DropFinished(Tail(q), to_remove)

\* a prune_finished that keeps every job
prune_nothing(q) == q

prune_finished(q) ==
    LET finished == Cardinality({i \in 1..Len(q) : IsFinished(q[i])})
    IN IF finished <= MAX_FINISHED_JOBS THEN q
       ELSE DropFinished(q, finished - MAX_FINISHED_JOBS)

\* the first job with the key gets the status; no job with the key: no change
SetStatusByKey(q, key, status) ==
    LET SameKey(j) == j.idempotency_key = key
        idx == FirstIndex([i \in 1..Len(q) |-> SameKey(q[i])])
    IN IF idx = 0 THEN q ELSE [q EXCEPT ![idx].status = status]

RECURSIVE Pow2(_)
Pow2(n) == IF n = 0 THEN 1 ELSE 2 * Pow2(n - 1)

Min(a, b) == IF a <= b THEN a ELSE b

BackoffDelayUncapped(failures) ==
    INITIAL_BACKOFF * Pow2(IF failures >= 1 THEN failures - 1 ELSE 0)

BackoffDelay(failures) ==
    Min(INITIAL_BACKOFF * Pow2(IF failures >= 1 THEN failures - 1 ELSE 0), MAX_BACKOFF)

NoAction == [act |-> "None", job |-> <<>>]

JobKindOfEvent(ev) == IF ev = "GameInstalled" THEN "NewInstall" ELSE "Reconcile"

on_event(ev, path) ==
    LET path_str == to_ascii_lowercase(path)
        kind == JobKindOfEvent(ev)
        idempotency_key == FormatKey(path_str, now)
        job == [id |-> next_id + 1, game_path |-> path, kind |-> kind,
                status |-> "Pending", idempotency_key |-> idempotency_key]
        KeepOther(j) == j.game_path # path
        AlreadyQueued == \E i \in 1..Len(queue) :
                             queue[i].game_path = path /\ IsPending(queue[i])
    IN /\ ret' = NoAction
       /\ IF ev = "GameUninstalled"
          THEN /\ queue' = SelectSeq(queue, KeepOther)
               /\ journal' = remove_by_prefix(journal, path_str \o <<":">>)
               /\ needs_persist' = TRUE
               /\ UNCHANGED <<state, settle_started, next_id>>
          ELSE IF path_str \in excluded_paths \/ path \in excluded_paths
          THEN UNCHANGED <<queue, journal, needs_persist, state, settle_started, next_id>>
          ELSE IF AlreadyQueued
          THEN UNCHANGED <<queue, journal, needs_persist, state, settle_started, next_id>>
          ELSE /\ next_id' = next_id + 1
               /\ queue' = enqueue_job(queue, job)
               /\ journal' = insert(journal, with_idempotency_key(path, kind, idempotency_key))
               /\ needs_persist' = TRUE
               /\ state' = IF state = "WaitingForEvents" THEN "WaitingForSettle" ELSE state
               /\ settle_started' = IF state = "WaitingForEvents" THEN TRUE ELSE settle_started
       /\ UNCHANGED <<excluded_paths, backoff_until, consecutive_failures>>

\* elapsed: the Instant comparison of the state at hand (cooldown over, deadline reached)
tick(is_idle, elapsed) ==
    LET idx == next_pending_job(queue)
        SettleStatus(j) == IF j.status = "Pending" THEN [j EXCEPT !.status = "WaitingForIdle"] ELSE j
    IN /\ UNCHANGED <<journal, excluded_paths, consecutive_failures, next_id>>
       /\ IF needs_persist
          THEN /\ needs_persist' = FALSE
               /\ ret' = [act |-> "Persist", job |-> <<>>]
               /\ UNCHANGED <<state, queue, settle_started, backoff_until>>
          ELSE /\ UNCHANGED needs_persist
               /\ CASE state = "WaitingForEvents" ->
                         /\ ret' = NoAction
                         /\ UNCHANGED <<state, queue, settle_started, backoff_until>>
                    [] state = "WaitingForSettle" ->
                         /\ ret' = NoAction
                         /\ IF settle_started
                            THEN IF elapsed
                                 THEN /\ state' = "WaitingForIdle"
                                      /\ settle_started' = FALSE
                                      /\ queue' = [i \in 1..Len(queue) |-> SettleStatus(queue[i])]
                                 ELSE UNCHANGED <<state, settle_started, queue>>
                            ELSE /\ state' = "WaitingForIdle"
                                 /\ UNCHANGED <<settle_started, queue>>
                         /\ UNCHANGED backoff_until
                    [] state = "WaitingForIdle" ->
                         /\ ret' = NoAction
                         /\ state' = IF is_idle THEN "SafetyCheck" ELSE state
                         /\ UNCHANGED <<queue, settle_started, backoff_until>>
                    [] state = "SafetyCheck" ->
                         IF idx # 0
                         THEN /\ queue' = SetStatusByKey(queue, queue[idx].idempotency_key, "Compressing")
                              /\ state' = "Compressing"
                              /\ ret' = [act |-> "Compress",
                                          job |-> <<[queue[idx] EXCEPT !.status = "Compressing"]>>]
                              /\ UNCHANGED <<settle_started, backoff_until>>
                         ELSE /\ state' = "WaitingForEvents"
                              /\ ret' = NoAction
                              /\ UNCHANGED <<queue, settle_started, backoff_until>>
                    [] state = "Compressing" ->
                         /\ ret' = NoAction
                         /\ state' = IF ~is_idle THEN "Paused" ELSE state
                         /\ UNCHANGED <<queue, settle_started, backoff_until>>
                    [] state = "Paused" ->
                         /\ ret' = NoAction
                         /\ state' = IF is_idle THEN "Compressing" ELSE state
                         /\ UNCHANGED <<queue, settle_started, backoff_until>>
                    [] OTHER ->
                         /\ ret' = NoAction
                         /\ IF backoff_until # <<>>
                            THEN IF elapsed
                                 THEN /\ backoff_until' = <<>>
                                      /\ state' = "WaitingForIdle"
                                 ELSE UNCHANGED <<backoff_until, state>>
                            ELSE /\ state' = "WaitingForIdle"
                                 /\ UNCHANGED backoff_until
                         /\ UNCHANGED <<queue, settle_started>>

job_completed(key) ==
    LET q == prune_finished(SetStatusByKey(queue, key, "Completed"))
    IN /\ queue' = q
       /\ journal' = remove(journal, key)
       /\ consecutive_failures' = 0
       /\ needs_persist' = TRUE
       /\ state' = IF has_pending_jobs(q) THEN "WaitingForIdle" ELSE "WaitingForEvents"
       /\ ret' = NoAction
       /\ UNCHANGED <<excluded_paths, backoff_until, settle_started, next_id>>

job_failed(key) ==
    LET q == prune_finished(SetStatusByKey(queue, key, "Failed"))
    IN /\ queue' = q
       /\ journal' = remove(journal, key)
       /\ consecutive_failures' = consecutive_failures + 1
       /\ needs_persist' = TRUE
       /\ backoff_until' = <<BackoffDelay(consecutive_failures + 1)>>
       /\ state' = IF has_pending_jobs(q) THEN "Backoff" ELSE "WaitingForEvents"
       /\ ret' = NoAction
       /\ UNCHANGED <<excluded_paths, settle_started, next_id>>

job_skipped(key) ==
    LET q == prune_finished(SetStatusByKey(queue, key, "Skipped"))
    IN /\ queue' = q
       /\ journal' = remove(journal, key)
       /\ needs_persist' = TRUE
       /\ state' = IF has_pending_jobs(q) THEN "WaitingForIdle" ELSE "WaitingForEvents"
       /\ ret' = NoAction
       /\ UNCHANGED <<excluded_paths, backoff_until, consecutive_failures, settle_started, next_id>>

pause ==
    /\ state' = "Paused"
    /\ ret' = NoAction
    /\ UNCHANGED <<queue, journal, excluded_paths, backoff_until, consecutive_failures,
                   settle_started, needs_persist, next_id>>

\* a resume that does not look at the state
resume_from_any_state ==
    /\ state' = IF has_pending_jobs(queue) \/ has_active_job(queue)
                THEN "WaitingForIdle" ELSE "WaitingForEvents"
    /\ ret' = NoAction
    /\ UNCHANGED <<queue, journal, excluded_paths, backoff_until, consecutive_failures,
                   settle_started, needs_persist, next_id>>

resume ==
    /\ state' = IF state = "Paused"
                THEN IF has_pending_jobs(queue) \/ has_active_job(queue)
                     THEN "WaitingForIdle" ELSE "WaitingForEvents"
                ELSE state
    /\ ret' = NoAction
    /\ UNCHANGED <<queue, journal, excluded_paths, backoff_until, consecutive_failures,
                   settle_started, needs_persist, next_id>>

\* restore_or_new's loop: one Pending job per journal entry, through enqueue_job
RECURSIVE RestoreJobs(_, _, _)
RestoreJobs(q, entries, id) ==
    IF entries = <<>> THEN q
    ELSE RestoreJobs(
             enqueue_job(q, [id |-> id + 1, game_path |-> Head(entries).game_path,
                             kind |-> JobKindOf(Head(entries).event_kind),
                             status |-> "Pending",
                             idempotency_key |-> Head(entries).idempotency_key]),
             Tail(entries), id + 1)

restore_or_new ==
    LET loaded == load(<<>>)
        restored == loaded.ok /\ loaded.count > 0
        q == IF restored THEN RestoreJobs(<<>>, loaded.entries, next_id) ELSE <<>>
    IN /\ journal' = loaded.entries
       /\ queue' = q
       /\ next_id' = IF restored THEN next_id + Len(loaded.entries) ELSE next_id
       /\ state' = IF q # <<>> THEN "WaitingForIdle" ELSE "WaitingForEvents"
       /\ backoff_until' = <<>>
       /\ consecutive_failures' = 0
       /\ settle_started' = FALSE
       /\ needs_persist' = FALSE
       /\ ret' = NoAction
       /\ UNCHANGED excluded_paths

\* ------------------------------------------------- JournalWriter::flush

\* fs::write creates or truncates the .tmp file
FlushBegin ==
    /\ flush_pc = "idle"
    /\ tmp' = <<[data |-> <<>>, whole |-> FALSE]>>
    /\ flush_pc' = "writing"
    /\ UNCHANGED <<file, committed>>

\* fs::write writes the serialized snapshot, an entry at a time
FlushWrite ==
    /\ flush_pc = "writing"
    /\ IF Len(tmp[1].data) < Len(journal)
       THEN /\ tmp' = <<[data |-> Append(tmp[1].data, journal[Len(tmp[1].data) + 1]),
                         whole |-> FALSE]>>
            /\ UNCHANGED flush_pc
       ELSE /\ tmp' = <<[data |-> tmp[1].data, whole |-> TRUE]>>
            /\ flush_pc' = "written"
    /\ UNCHANGED <<file, committed>>

\* fs::rename(tmp_path, path)
FlushRename ==
    /\ flush_pc = "written"
    /\ file' = tmp
    /\ tmp' = <<>>
    /\ committed' = <<journal>>
    /\ flush_pc' = "idle"

\* the error of fs::write dropped: the rename runs on what was written so far
FlushFailIgnored ==
    /\ flush_pc \in {"writing", "written"}
    /\ file' = tmp
    /\ tmp' = <<>>
    /\ committed' = <<journal>>
    /\ flush_pc' = "idle"

\* fs::write or fs::rename returns Err: flush returns early
FlushFail ==
    /\ flush_pc \in {"writing", "written"}
    /\ flush_pc' = "idle"
    /\ UNCHANGED <<file, tmp, committed>>

FlushStep == FlushBegin \/ FlushWrite \/ FlushRename \/ FlushFail

\* ------------------------------------------- calls made by any owner

Callable == alive /\ flush_pc = "idle"

OnEvent ==
    /\ Callable
    /\ \E ev \in WatchEventKinds, path \in GamePaths : on_event(ev, path)
    /\ next_id' <= MaxJobs
    /\ UNCHANGED <<alive, disk_vars, now, restarts, pre, wpc, active>>
    /\ UNCHANGED comp_vars

Tick ==
    /\ Callable
    /\ \E is_idle \in BOOLEAN, elapsed \in BOOLEAN : tick(is_idle, elapsed)
    /\ UNCHANGED <<alive, disk_vars, now, restarts, pre, wpc, active>>
    /\ UNCHANGED comp_vars

\* the keys an owner can name: those of queued jobs
QueueKeys == {queue[i].idempotency_key : i \in 1..Len(queue)}

JournalKeys == {journal[i].idempotency_key : i \in 1..Len(journal)}

JobCompleted ==
    /\ Callable
    /\ \E key \in QueueKeys : job_completed(key)
    /\ UNCHANGED <<alive, disk_vars, now, restarts, pre, wpc, active>>
    /\ UNCHANGED comp_vars

JobFailed ==
    /\ Callable
    /\ \E key \in QueueKeys : job_failed(key)
    /\ consecutive_failures' <= MaxFailures
    /\ UNCHANGED <<alive, disk_vars, now, restarts, pre, wpc, active>>
    /\ UNCHANGED comp_vars

JobSkipped ==
    /\ Callable
    /\ \E key \in QueueKeys : job_skipped(key)
    /\ UNCHANGED <<alive, disk_vars, now, restarts, pre, wpc, active>>
    /\ UNCHANGED comp_vars

Pause ==
    /\ Callable
    /\ pause
    /\ UNCHANGED <<alive, disk_vars, now, restarts, pre, wpc, active>>
    /\ UNCHANGED comp_vars

Resume ==
    /\ Callable
    /\ resume
    /\ UNCHANGED <<alive, disk_vars, now, restarts, pre, wpc, active>>
    /\ UNCHANGED comp_vars

AdvanceClock ==
    /\ now < MaxEpoch
    /\ now' = now + 1
    /\ UNCHANGED <<alive, sched_vars, disk_vars, ret, restarts, pre, wpc, active>>
    /\ UNCHANGED comp_vars

\* what is remembered of a run that ended: nothing, before any has
NoRun == [queue |-> <<>>, synced |-> FALSE, active |-> 0]

Synced == flush_pc = "idle" /\ file = <<[data |-> journal, whole |-> TRUE]>>

\* the process dies at any point; only the files survive
Crash ==
    /\ alive
    /\ alive' = FALSE
    /\ pre' = [queue |-> queue, synced |-> Synced,
               active |-> IF active = <<>> THEN 0 ELSE active[1].id]
    /\ state' = "WaitingForEvents"
    /\ queue' = <<>>
    /\ journal' = <<>>
    /\ backoff_until' = <<>>
    /\ consecutive_failures' = 0
    /\ settle_started' = FALSE
    /\ needs_persist' = FALSE
    /\ flush_pc' = "idle"
    /\ active' = <<>>
    /\ wpc' = "started"
    /\ ret' = NoAction
    /\ UNCHANGED <<excluded_paths, file, tmp, committed, now, next_id, restarts>>
    /\ UNCHANGED comp_vars

Restore ==
    /\ ~alive
    /\ restarts < MaxRestarts
    /\ restarts' = restarts + 1
    /\ alive' = TRUE
    /\ restore_or_new
    /\ UNCHANGED <<disk_vars, now, pre, wpc, active>>
    /\ UNCHANGED comp_vars

\* EventCoalescer::new
CoalescerInit ==
    /\ pending = [path \in CoalescedPaths |-> <<>>]
    /\ clock = 0
    /\ settled = <<>>
    /\ last_ingest = [path \in CoalescedPaths |-> <<>>]

\* what an iteration of reporter_loop holds before its first load
NotLoaded ==
    [stopping |-> FALSE, done_now |-> FALSE, files_processed_raw |-> 0,
     files_total_raw |-> 0, bytes_original |-> 0, bytes_compressed |-> 0]

\* reset_counters has run and no ProgressReporter exists yet
ReporterInit ==
    /\ counters = [files_processed |-> 0, files_total |-> 0,
                   bytes_original |-> 0, bytes_compressed |-> 0]
    /\ done = FALSE
    /\ stop = FALSE
    /\ rep_pc = "unborn"
    /\ seen = NotLoaded
    /\ last_emitted = <<>>
    /\ baseline_pending = FALSE
    /\ chan = <<>>
    /\ eng_pc = "new"
    /\ sent = [n |-> 0, complete |-> 0]
    /\ received = [n |-> 0, complete |-> 0]

\* an engine and the clones of it: they share the gate, the token and the counters
Engines == {"engine", "clone", "clone2"}

\* CompressionEngine::new
EngineInit ==
    /\ busy = FALSE
    /\ cancelled = FALSE
    /\ op_pc = [t \in Engines |-> "idle"]
    /\ manifest = [t \in Engines |-> 0]
    /\ files_left = [t \in Engines |-> 0]
    /\ op_result = [t \in Engines |-> "none"]
    /\ files_done = 0
    /\ cancel_hit = [t \in Engines |-> FALSE]
    /\ ops_started = 0

\* the IdleConfig values an update may carry: a CPU threshold in percent and an
\* idle_duration in seconds
IdleConfigs == [cpu_threshold_percent : {10, 50}, idle_duration : {0, 2}]

\* IdleConfig::default with idle_duration scaled to the model's clock
DefaultIdleConfig == [cpu_threshold_percent |-> 10, idle_duration |-> 2]

\* IdleDetector::default and auto_loop's locals before the loop
IdleInit ==
    /\ idle_detector = [config |-> DefaultIdleConfig, idle_since |-> <<>>]
    /\ idle_now = 0
    /\ active_compression = <<>>
    /\ iteration = [update |-> <<>>, cpu_usage |-> 0, is_idle |-> FALSE]

\* WatcherConfig::default: no watch paths, a cooldown of 300 s
DefaultWatcherConfig == [watch_paths |-> {}, cooldown |-> 300]

\* GameWatcher::new(WatcherConfig::default()), as auto_loop builds it
WatcherInit ==
    /\ game_watcher = [config |-> DefaultWatcherConfig, watcher |-> <<>>,
                       stop_flag |-> FALSE, worker_handle |-> <<>>, event_rx |-> FALSE]
    /\ watcher_threads = 0
    /\ watcher_ret = [op |-> "new", result |-> "Ok", config |-> DefaultWatcherConfig,
                      os_ok |-> TRUE, was_running |-> FALSE]

\* the compress_game calls that may be in flight together
ApiCalls == {"call1", "call2"}

\* no compress_game call has been made: ACTIVE holds None
ApiInit ==
    /\ ACTIVE = <<>>
    /\ api_pc = [c \in ApiCalls |-> "idle"]
    /\ api_token = [c \in ApiCalls |-> FALSE]
    /\ api_result = [c \in ApiCalls |-> <<>>]
    /\ api_ret = [c \in ApiCalls |-> <<>>]

\* the threads that call the automation API
AutoCallers == {"caller1", "caller2"}

\* no start_auto_compression has been called: ACTIVE_AUTO holds None
AutoInit ==
    /\ ACTIVE_AUTO = <<>>
    /\ auto_loops = <<>>
    /\ auto_pc = [c \in AutoCallers |-> <<>>]
    /\ auto_ret = [c \in AutoCallers |-> "None"]

LearnCallers == {"learner1", "learner2"}

\* the process has not touched the learned list: no file, LEARNED_GAMES loads empty,
\* SAVE_QUEUE is not forced yet
LearnInit ==
    /\ LEARNED_GAMES = {}
    /\ SAVE_QUEUE = "uninit"
    /\ save_rx = <<>>
    /\ learn_pc = [c \in LearnCallers |-> "idle"]
    /\ games_snapshot = [c \in LearnCallers |-> {}]
    /\ writer_pc = "recv"
    /\ latest = <<>>
    /\ learned_file = {}

Init ==
    /\ LearnInit
    /\ AutoInit
    /\ ApiInit
    /\ CoalescerInit
    /\ ReporterInit
    /\ EngineInit
    /\ IdleInit
    /\ WatcherInit
    /\ alive = TRUE
    /\ state = "WaitingForEvents"
    /\ queue = <<>>
    /\ excluded_paths \in ExcludedChoices
    /\ journal = <<>>
    /\ backoff_until = <<>>
    /\ consecutive_failures = 0
    /\ settle_started = FALSE
    /\ needs_persist = FALSE
    /\ file = <<>>
    /\ tmp = <<>>
    /\ flush_pc = "idle"
    /\ now = 0
    /\ ret = NoAction
    /\ next_id = 0
    /\ restarts = 0
    /\ committed = <<>>
    /\ pre = NoRun
    /\ wpc = "started"
    /\ active = <<>>

Next ==
    \/ OnEvent
    \/ Tick
    \/ JobCompleted
    \/ JobFailed
    \/ JobSkipped
    \/ Pause
    \/ Resume
    \/ AdvanceClock

\* the scheduler in the hands of any owner: every public call, in any order
Spec == Init /\ [][Next]_vars

\* ------------------------------------------------- the worker's auto_loop

\* spawn_compression_job, without its safety checks
spawn_unchecked(job, ds, running, is_dir, spawned) ==
    [key |-> job.idempotency_key, id |-> job.id, ds |-> ds, running |-> running,
     started |-> spawned,
     result |-> IF spawned THEN "None" ELSE "Disconnected"]

\* ds, running, is_dir: what is_directstorage_game, is_game_running and is_dir
\* answer for the job's folder; spawned: whether the thread could be created
\* (its error is dropped, and the sender with it)
spawn_compression_job(job, ds, running, is_dir, spawned) ==
    [key |-> job.idempotency_key, id |-> job.id, ds |-> ds, running |-> running,
     started |-> ~ds /\ ~running /\ is_dir /\ spawned,
     result |-> IF ds THEN "Skipped"
                ELSE IF running THEN "Failed"
                ELSE IF ~is_dir THEN "Skipped"
                ELSE IF spawned THEN "None"
                ELSE "Disconnected"]

\* GameWatcher::start, after restore_or_new and before the loop
WatcherStart ==
    /\ alive
    /\ wpc = "started"
    /\ wpc' = "recv"
    /\ pre' = NoRun
    /\ UNCHANGED <<alive, sched_vars, disk_vars, now, ret, restarts, active>>
    /\ UNCHANGED comp_vars

\* the keys minted in the current second
KeyOfNow(key) == \E path \in WatchedPaths : key = FormatKey(to_ascii_lowercase(path), now)

\* stop_rx.recv_timeout(2 s): nothing received, the iteration goes on. The
\* two seconds move the clock; the move is recorded when a key of the
\* second left behind exists, the only way the clock is read.
WRecvTimeout ==
    /\ alive
    /\ wpc = "recv"
    /\ wpc' = "result"
    /\ now' = IF \E key \in QueueKeys \cup JournalKeys : KeyOfNow(key) THEN now + 1 ELSE now
    /\ UNCHANGED <<alive, sched_vars, disk_vars, ret, restarts, pre, active>>
    /\ UNCHANGED comp_vars

\* stop received: the active job is cancelled, its result waited for and
\* dropped, and the loop is left
WStop ==
    /\ alive
    /\ wpc = "recv"
    /\ wpc' = "shutdown"
    /\ UNCHANGED <<alive, sched_vars, disk_vars, now, ret, restarts, pre, active>>
    /\ UNCHANGED comp_vars

\* scheduler.persist() after the loop, a step of flush at a time
WShutdownPersist ==
    /\ alive
    /\ wpc = "shutdown"
    /\ FlushStep
    /\ wpc' = IF flush_pc' = "idle" THEN "exit" ELSE "shutdown"
    /\ UNCHANGED <<alive, sched_vars, now, ret, restarts, pre, active>>
    /\ UNCHANGED comp_vars

\* result dispatch
WResult ==
    /\ alive
    /\ wpc = "result"
    /\ wpc' = "events"
    /\ IF active = <<>> \/ (active # <<>> /\ active[1].result = "None")
       THEN UNCHANGED <<sched_vars, ret, active>>
       ELSE /\ active' = <<>>
            /\ CASE active[1].result = "Success" -> job_completed(active[1].key)
                 [] active[1].result = "Failed" ->
                        /\ job_failed(active[1].key)
                        /\ consecutive_failures' <= MaxFailures
                 [] active[1].result = "Skipped" -> job_skipped(active[1].key)
                 [] OTHER -> UNCHANGED <<sched_vars, ret>>
    /\ UNCHANGED <<alive, disk_vars, now, restarts, pre>>
    /\ UNCHANGED comp_vars

\* one event taken from the watcher's channel
WEvent ==
    /\ alive
    /\ wpc = "events"
    /\ \E ev \in WatchEventKinds, path \in WatchedPaths : on_event(ev, path)
    /\ next_id' <= MaxJobs
    /\ UNCHANGED <<alive, disk_vars, now, restarts, pre, wpc, active>>
    /\ UNCHANGED comp_vars

\* the channel is empty: on to the idle sample and tick
WEventsDone ==
    /\ alive
    /\ wpc = "events"
    /\ wpc' = "tick"
    /\ UNCHANGED <<alive, sched_vars, disk_vars, now, ret, restarts, pre, active>>
    /\ UNCHANGED comp_vars

\* the idle sample, scheduler.tick(is_idle, false) and the action it returns.
\* Cancelling the token of the active job when not idle changes no variable:
\* the thread may end with either result whether cancelled or not.
WTick ==
    /\ alive
    /\ wpc = "tick"
    /\ \E is_idle \in BOOLEAN, elapsed \in BOOLEAN : tick(is_idle, elapsed)
    /\ IF ret'.act = "Compress"
       THEN /\ \E ds \in BOOLEAN, running \in BOOLEAN, is_dir \in BOOLEAN, spawned \in BOOLEAN :
                   active' = <<spawn_compression_job(ret'.job[1], ds, running, is_dir, spawned)>>
            /\ wpc' = "recv"
       ELSE /\ active' = active
            /\ wpc' = IF ret'.act = "Persist" THEN "persist" ELSE "recv"
    /\ UNCHANGED <<alive, disk_vars, now, restarts, pre>>
    /\ UNCHANGED comp_vars

\* scheduler.persist() for SchedulerAction::Persist, a step of flush at a time
WPersist ==
    /\ alive
    /\ wpc = "persist"
    /\ FlushStep
    /\ wpc' = IF flush_pc' = "idle" THEN "recv" ELSE "persist"
    /\ UNCHANGED <<alive, sched_vars, now, ret, restarts, pre, active>>
    /\ UNCHANGED comp_vars

\* the compression thread ends and sends its result
CompressionThread ==
    /\ alive
    /\ active # <<>>
    /\ active[1].started
    /\ active[1].result = "None"
    /\ \E result \in {"Success", "Failed"} : active' = <<[active[1] EXCEPT !.result = result]>>
    /\ UNCHANGED <<alive, sched_vars, disk_vars, now, ret, restarts, pre, wpc>>
    /\ UNCHANGED comp_vars

NextWorker ==
    \/ WatcherStart
    \/ WRecvTimeout
    \/ WStop
    \/ WShutdownPersist
    \/ WResult
    \/ WEvent
    \/ WEventsDone
    \/ WTick
    \/ WPersist
    \/ CompressionThread
    \/ Crash
    \/ Restore

\* the automation worker: auto_loop over the scheduler, its compression
\* thread, the journal file, and the process stopping and starting again
SpecWorker == Init /\ [][NextWorker]_vars

\* ------------------------------------- one install after another

\* one job more than the queue is meant to hold
FullQueueJobs == MAX_QUEUE_SIZE + 1

\* the folder of the k-th install
InstallPath(k) == <<"f">> \o Decimal(k)

\* a GameInstalled event for a folder not seen before, once nothing is pending
InstallNext ==
    /\ Callable
    /\ ~has_pending_jobs(queue)
    /\ next_id < FullQueueJobs
    /\ on_event("GameInstalled", InstallPath(next_id + 1))
    /\ UNCHANGED <<alive, disk_vars, now, restarts, pre, wpc, active>>
    /\ UNCHANGED comp_vars

NextInstalls ==
    \/ InstallNext
    \/ Tick
    \/ Pause
    \/ Resume

\* an owner that is sent installs of new folders one at a time, ticks, and
\* pauses and resumes
SpecInstalls == Init /\ [][NextInstalls]_vars

\* --------------------------------------- the journal writer on its own

JournalEntryChoices ==
    { with_idempotency_key(<<"G">>, "NewInstall", FormatKey(<<"g">>, 0)),
      with_idempotency_key(<<"H">>, "Reconcile", FormatKey(<<"h">>, 0)),
      with_idempotency_key(<<"g">>, "Reconcile", FormatKey(<<"g">>, 0)) }

JInsert ==
    /\ Callable
    /\ \E entry \in JournalEntryChoices : journal' = insert(journal, entry)
    /\ UNCHANGED <<alive, state, queue, excluded_paths, backoff_until, consecutive_failures,
                   settle_started, needs_persist, next_id, disk_vars, now, ret, restarts,
                   pre, wpc, active>>
    /\ UNCHANGED comp_vars

JRemove ==
    /\ Callable
    /\ \E key \in JournalKeys : journal' = remove(journal, key)
    /\ UNCHANGED <<alive, state, queue, excluded_paths, backoff_until, consecutive_failures,
                   settle_started, needs_persist, next_id, disk_vars, now, ret, restarts,
                   pre, wpc, active>>
    /\ UNCHANGED comp_vars

JFlush ==
    /\ alive
    /\ FlushStep
    /\ UNCHANGED <<alive, sched_vars, now, ret, restarts, pre, wpc, active>>
    /\ UNCHANGED comp_vars

\* a fresh JournalWriter on the same path, then load
JLoad ==
    /\ ~alive
    /\ restarts < MaxRestarts
    /\ restarts' = restarts + 1
    /\ alive' = TRUE
    /\ journal' = load(<<>>).entries
    /\ UNCHANGED <<state, queue, excluded_paths, backoff_until, consecutive_failures,
                   settle_started, needs_persist, next_id, disk_vars, now, ret, pre, wpc, active>>
    /\ UNCHANGED comp_vars

NextJournal ==
    \/ JInsert
    \/ JRemove
    \/ JFlush
    \/ Crash
    \/ JLoad

\* a JournalWriter driven through insert, remove, flush and load, with crashes
SpecJournal == Init /\ [][NextJournal]_vars

\* the prefixes an Uninstalled event may build
JournalPrefixes == { <<"g", ":">>, <<"h", ":">> }

JRemoveByPrefix ==
    /\ Callable
    /\ \E prefix \in JournalPrefixes : journal' = remove_by_prefix(journal, prefix)
    /\ UNCHANGED <<alive, state, queue, excluded_paths, backoff_until, consecutive_failures,
                   settle_started, needs_persist, next_id, disk_vars, now, ret, restarts,
                   pre, wpc, active>>
    /\ UNCHANGED comp_vars

\* load on a writer that holds entries; an Err leaves them as they are
JLoadLive ==
    /\ Callable
    /\ journal' = load(journal).entries
    /\ UNCHANGED <<alive, state, queue, excluded_paths, backoff_until, consecutive_failures,
                   settle_started, needs_persist, next_id, disk_vars, now, ret, restarts,
                   pre, wpc, active>>
    /\ UNCHANGED comp_vars

NextJournalOps ==
    \/ NextJournal
    \/ JRemoveByPrefix
    \/ JLoadLive

\* a JournalWriter driven through every call that changes its entries
SpecJournalOps == Init /\ [][NextJournalOps]_vars

\* ------------------------------------------------- watcher/coalescer.rs

WatchEventKind == {"Installed", "Uninstalled", "Modified"}

\* Option<String> game names
GameNames == { <<>>, <<"n">> }

\* ingest that leaves the timer of an occupied entry where it was
ingest_keep_timer(p, path, kind, game_name, t) ==
    IF p[path] # <<>>
    THEN [p EXCEPT ![path] = <<[p[path][1] EXCEPT
                                   !.kind = kind,
                                   !.game_name = IF game_name # <<>> THEN game_name ELSE @]>>]
    ELSE [p EXCEPT ![path] = <<[path |-> path, kind |-> kind, game_name |-> game_name,
                                last_seen |-> t]>>]

\* t: Instant::now()
ingest(p, path, kind, game_name, t) ==
    IF p[path] # <<>>
    THEN [p EXCEPT ![path] = <<[p[path][1] EXCEPT
                                   !.last_seen = t,
                                   !.kind = kind,
                                   !.game_name = IF game_name # <<>> THEN game_name ELSE @]>>]
    ELSE [p EXCEPT ![path] = <<[path |-> path, kind |-> kind, game_name |-> game_name,
                                last_seen |-> t]>>]

WatchEventOf(pe) ==
    [ev |-> CASE pe.kind = "Installed" -> "GameInstalled"
              [] pe.kind = "Uninstalled" -> "GameUninstalled"
              [] OTHER -> "GameModified",
     path |-> pe.path, game_name |-> pe.game_name]

\* the retain closure's test
CooldownOver(pe, t) == t - pe.last_seen >= CooldownTicks

\* the sequences holding each element of S once: the orders a HashMap may be walked in
Orderings(S) ==
    {seq \in [1..Cardinality(S) -> S] : \A i, k \in 1..Cardinality(S) : i # k => seq[i] # seq[k]}

Ingest ==
    /\ \E path \in CoalescedPaths, kind \in WatchEventKind, game_name \in GameNames :
          /\ pending' = ingest(pending, path, kind, game_name, clock)
          /\ last_ingest' = [last_ingest EXCEPT ![path] =
                 <<[at |-> clock, kind |-> kind, answered |-> FALSE,
                    burst |-> last_ingest[path] # <<>> /\ ~last_ingest[path][1].answered]>>]
    /\ UNCHANGED <<clock, settled, not_coal>>

DrainSettled ==
    LET over == {path \in CoalescedPaths :
                     pending[path] # <<>> /\ CooldownOver(pending[path][1], clock)}
    IN /\ settled' \in Orderings({WatchEventOf(pending[path][1]) : path \in over})
       /\ pending' = [path \in CoalescedPaths |-> IF path \in over THEN <<>> ELSE pending[path]]
       /\ last_ingest' = [path \in CoalescedPaths |->
              IF path \in over /\ last_ingest[path] # <<>>
              THEN <<[last_ingest[path][1] EXCEPT !.answered = TRUE]>>
              ELSE last_ingest[path]]
       /\ UNCHANGED <<clock, not_coal>>

CoalescerClock ==
    /\ clock < MaxClock
    /\ clock' = clock + 1
    /\ UNCHANGED <<pending, settled, last_ingest, not_coal>>

NextCoalescer ==
    \/ Ingest
    \/ DrainSettled
    \/ CoalescerClock

\* an EventCoalescer fed raw events and drained as time passes
SpecCoalescer == Init /\ [][NextCoalescer]_vars

\* ------------------------------------------------ the progress reporter

Max(a, b) == IF a >= b THEN a ELSE b

\* files_total as an iteration of reporter_loop displays it
files_total(l) ==
    IF l.done_now THEN Max(l.files_total_raw, l.files_processed_raw)
    ELSE IF l.files_processed_raw > l.files_total_raw THEN l.files_processed_raw + 1
    ELSE l.files_total_raw

files_processed(l) == Min(l.files_processed_raw, files_total(l))

is_complete_by_counters(l) == l.done_now \/ l.files_processed_raw >= l.files_total_raw

is_complete(l) == l.done_now

progress_as_loaded(l) ==
    [files_total |-> l.files_total_raw, files_processed |-> l.files_processed_raw,
     bytes_original |-> l.bytes_original, bytes_compressed |-> l.bytes_compressed,
     is_complete |-> is_complete(l)]

\* the CompressionProgress of an iteration; emit_key holds the same five values
progress(l) ==
    [files_total |-> files_total(l), files_processed |-> files_processed(l),
     bytes_original |-> l.bytes_original, bytes_compressed |-> l.bytes_compressed,
     is_complete |-> is_complete(l)]

baseline(l) ==
    [files_total |-> files_total(l), files_processed |-> 0,
     bytes_original |-> 0, bytes_compressed |-> 0,
     is_complete |-> l.done_now /\ files_total(l) = 0]

\* the channel after send_latest: the reporter holds latest_rx, so the channel is never
\* disconnected, a full slot is emptied first, and the send always succeeds
send_latest(ch, p) == <<p>>

Counted(c, p) == [n |-> c.n + 1, complete |-> c.complete + (IF p.is_complete THEN 1 ELSE 0)]

\* ProgressReporter::new_with_baseline: the channel, the two flags and the thread
ReporterNew ==
    /\ eng_pc = "new"
    /\ baseline_pending' \in BOOLEAN
    /\ rep_pc' = "park"
    /\ eng_pc' = "running"
    /\ UNCHANGED <<counters, done, stop, seen, last_emitted, chan, sent, received, not_rep>>

\* the six loads at the top of the loop body, one atomic at a time
ReporterLoad ==
    /\ \/ /\ rep_pc = "park"
          /\ seen' = [NotLoaded EXCEPT !.stopping = stop]
          /\ rep_pc' = "stop_loaded"
       \/ /\ rep_pc = "stop_loaded"
          /\ seen' = [seen EXCEPT !.done_now = done]
          /\ rep_pc' = "done_loaded"
       \/ /\ rep_pc = "done_loaded"
          /\ seen' = [seen EXCEPT !.files_processed_raw = counters.files_processed]
          /\ rep_pc' = "processed_loaded"
       \/ /\ rep_pc = "processed_loaded"
          /\ seen' = [seen EXCEPT !.files_total_raw = counters.files_total]
          /\ rep_pc' = "total_loaded"
       \/ /\ rep_pc = "total_loaded"
          /\ seen' = [seen EXCEPT !.bytes_original = counters.bytes_original]
          /\ rep_pc' = "original_loaded"
       \/ /\ rep_pc = "original_loaded"
          /\ seen' = [seen EXCEPT !.bytes_compressed = counters.bytes_compressed]
          /\ rep_pc' = "loaded"
    /\ UNCHANGED <<counters, done, stop, last_emitted, baseline_pending, chan, eng_pc,
                   sent, received, not_rep>>

\* the rest of the loop body: the baseline branch or the emit branch, then break or loop
ReporterEmit ==
    /\ rep_pc = "loaded"
    /\ seen' = NotLoaded
    /\ IF baseline_pending
       THEN IF files_total(seen) = 0 /\ ~seen.done_now /\ ~seen.stopping
            THEN /\ rep_pc' = "park"
                 /\ UNCHANGED <<chan, last_emitted, baseline_pending, sent>>
            ELSE /\ chan' = send_latest(chan, baseline(seen))
                 /\ sent' = Counted(sent, baseline(seen))
                 /\ last_emitted' = <<baseline(seen)>>
                 /\ baseline_pending' = FALSE
                 /\ rep_pc' = IF baseline(seen).is_complete THEN "exited" ELSE "park"
       ELSE /\ IF last_emitted # <<progress(seen)>> \/ seen.stopping
               THEN /\ chan' = send_latest(chan, progress(seen))
                    /\ sent' = Counted(sent, progress(seen))
                    /\ last_emitted' = <<progress(seen)>>
               ELSE UNCHANGED <<chan, last_emitted, sent>>
            /\ rep_pc' = IF is_complete(seen) \/ seen.stopping THEN "exited" ELSE "park"
            /\ UNCHANGED baseline_pending
    /\ UNCHANGED <<counters, done, stop, eng_pc, received, not_rep>>

\* a fetch_add of the engine on one of the counters
CounterUpdate ==
    /\ eng_pc = "running"
    /\ \/ /\ counters.files_total < MaxFiles
          /\ counters' = [counters EXCEPT !.files_total = @ + 1]
       \/ /\ counters.files_processed < MaxFiles
          /\ counters' = [counters EXCEPT !.files_processed = @ + 1]
       \/ /\ counters.bytes_original < MaxBytes
          /\ counters' = [counters EXCEPT !.bytes_original = @ + 1]
       \/ /\ counters.bytes_compressed < MaxBytes
          /\ counters' = [counters EXCEPT !.bytes_compressed = @ + 1]
    /\ UNCHANGED <<done, stop, rep_pc, seen, last_emitted, baseline_pending, chan, eng_pc,
                   sent, received, not_rep>>

MarkDone ==
    /\ eng_pc = "running"
    /\ done' = TRUE
    /\ eng_pc' = "marked"
    /\ UNCHANGED <<counters, stop, rep_pc, seen, last_emitted, baseline_pending, chan,
                   sent, received, not_rep>>

\* ProgressReporter::stop up to the join
ReporterStop ==
    /\ eng_pc = "marked"
    /\ stop' = TRUE
    /\ eng_pc' = "joining"
    /\ UNCHANGED <<counters, done, rep_pc, seen, last_emitted, baseline_pending, chan,
                   sent, received, not_rep>>

ReporterJoin ==
    /\ eng_pc = "joining"
    /\ rep_pc = "exited"
    /\ eng_pc' = "joined"
    /\ UNCHANGED <<counters, done, stop, rep_pc, seen, last_emitted, baseline_pending,
                   chan, sent, received, not_rep>>

\* the consumer takes the queued snapshot
Receive ==
    /\ chan # <<>>
    /\ received' = Counted(received, chan[1])
    /\ chan' = <<>>
    /\ UNCHANGED <<counters, done, stop, rep_pc, seen, last_emitted, baseline_pending,
                   eng_pc, sent, not_rep>>

NextReporter ==
    \/ ReporterNew
    \/ ReporterLoad
    \/ ReporterEmit
    \/ CounterUpdate
    \/ MarkDone
    \/ ReporterStop
    \/ ReporterJoin
    \/ Receive

\* one operation of compress_folder_with_progress: the engine thread, its reporter thread
\* and the consumer of the progress channel
SpecReporter == Init /\ [][NextReporter]_vars

\* ------------------------------------- the engine's gate and its token

is_cancelled_never(token) == FALSE

is_cancelled(token) == token

\* CancellationToken::reset, called when an OperationSession is dropped
reset == FALSE

\* the handles inside an operation: between OperationGuard::acquire and release
InOperation == {t \in Engines : op_pc[t] \in {"session", "files", "ending", "releasing"}}

Entered(t) ==
    /\ busy' = TRUE
    /\ op_pc' = [op_pc EXCEPT ![t] = "session"]
    /\ op_result' = [op_result EXCEPT ![t] = "none"]
    /\ cancel_hit' = [cancel_hit EXCEPT ![t] = cancelled]

OpAcquireUnguarded(t) ==
    /\ op_pc[t] = "idle"
    /\ ops_started < MaxOps
    /\ ops_started' = ops_started + 1
    /\ Entered(t)
    /\ UNCHANGED <<cancelled, manifest, files_left, files_done, not_eng>>

\* OperationGuard::acquire up to its first look at busy
OpAcquire(t) ==
    /\ op_pc[t] = "idle"
    /\ ops_started < MaxOps
    /\ ops_started' = ops_started + 1
    /\ IF busy
       THEN /\ op_pc' = [op_pc EXCEPT ![t] = "waiting"]
            /\ UNCHANGED <<busy, op_result, cancel_hit>>
       ELSE Entered(t)
    /\ UNCHANGED <<cancelled, manifest, files_left, files_done, not_eng>>

\* Condvar::wait may return without a notify
SpuriousWake(t) ==
    /\ op_pc[t] = "waiting"
    /\ op_pc' = [op_pc EXCEPT ![t] = "woken"]
    /\ UNCHANGED <<busy, cancelled, manifest, files_left, op_result, files_done, cancel_hit,
                   ops_started, not_eng>>

\* OperationGuard::acquire after a wakeup: the while loop looks at busy again
OpRecheck(t) ==
    /\ op_pc[t] = "woken"
    /\ IF busy
       THEN /\ op_pc' = [op_pc EXCEPT ![t] = "waiting"]
            /\ UNCHANGED <<busy, op_result, cancel_hit>>
       ELSE Entered(t)
    /\ UNCHANGED <<cancelled, manifest, files_left, files_done, ops_started, not_eng>>

\* OperationSession::new after the guard: reset_counters, then the manifest is counted
OpSessionNew(t) ==
    /\ op_pc[t] = "session"
    /\ files_done' = 0
    /\ \E n \in 0..MaxManifest :
          /\ manifest' = [manifest EXCEPT ![t] = n]
          /\ files_left' = [files_left EXCEPT ![t] = n]
    /\ op_pc' = [op_pc EXCEPT ![t] = "files"]
    /\ UNCHANGED <<busy, cancelled, op_result, cancel_hit, ops_started, not_eng>>

\* what the closure finds for a file: its size, its state on disk, and the answer of
\* wof_compress_file
FileOutcomes ==
    { "Empty", "TooSmall", "AlreadyCompressed", "MultiLinked", "Compressed",
      "NotBeneficial", "Recoverable", "DiskFull", "Fatal" }

\* a closure that leaves the files it skips for their size out of files_processed
files_processed_add_sized(outcome) ==
    CASE outcome \in {"Empty", "TooSmall"} -> 0
      [] outcome \in {"AlreadyCompressed", "MultiLinked"} -> 1
      [] outcome \in {"Compressed", "NotBeneficial", "Recoverable"} -> 1
      [] OTHER -> 0

\* what the closure adds to files_processed on each of its paths
files_processed_add(outcome) ==
    CASE outcome = "Empty" -> 1
      [] outcome = "TooSmall" -> 1
      [] outcome = "AlreadyCompressed" -> 1
      [] outcome = "MultiLinked" -> 1
      [] outcome \in {"Compressed", "NotBeneficial", "Recoverable"} -> 1
      [] OTHER -> 0

\* the closure of try_for_each for the next file: the cancel check, then the file's work
OpFile(t) ==
    /\ op_pc[t] = "files"
    /\ files_left[t] > 0
    /\ IF is_cancelled(cancelled)
       THEN /\ op_result' = [op_result EXCEPT ![t] = "Cancelled"]
            /\ op_pc' = [op_pc EXCEPT ![t] = "ending"]
            /\ UNCHANGED <<files_left, files_done>>
       ELSE \E outcome \in FileOutcomes :
               IF outcome \in {"DiskFull", "Fatal"}
               THEN /\ op_result' = [op_result EXCEPT ![t] = "Err"]
                    /\ op_pc' = [op_pc EXCEPT ![t] = "ending"]
                    /\ UNCHANGED <<files_left, files_done>>
               ELSE /\ files_left' = [files_left EXCEPT ![t] = @ - 1]
                    /\ files_done' = files_done + files_processed_add(outcome)
                    /\ UNCHANGED <<op_result, op_pc>>
    /\ UNCHANGED <<busy, cancelled, manifest, cancel_hit, ops_started, not_eng>>

\* try_for_each has run out of files: Ok(CompressionStats)
OpFinish(t) ==
    /\ op_pc[t] = "files"
    /\ files_left[t] = 0
    /\ op_result' = [op_result EXCEPT ![t] = "Ok"]
    /\ op_pc' = [op_pc EXCEPT ![t] = "ending"]
    /\ UNCHANGED <<busy, cancelled, manifest, files_left, files_done, cancel_hit, ops_started,
                   not_eng>>

\* Drop for OperationSession
OpSessionDrop(t) ==
    /\ op_pc[t] = "ending"
    /\ cancelled' = reset
    /\ op_pc' = [op_pc EXCEPT ![t] = "releasing"]
    /\ UNCHANGED <<busy, manifest, files_left, op_result, files_done, cancel_hit, ops_started,
                   not_eng>>

\* OperationGuard::release: busy is cleared and notify_one wakes one waiter, if there is one
OpRelease(t) ==
    /\ op_pc[t] = "releasing"
    /\ busy' = FALSE
    /\ LET waiters == {w \in Engines : op_pc[w] = "waiting"}
       IN IF waiters = {}
          THEN op_pc' = [op_pc EXCEPT ![t] = "idle"]
          ELSE \E w \in waiters : op_pc' = [op_pc EXCEPT ![t] = "idle", ![w] = "woken"]
    /\ UNCHANGED <<cancelled, manifest, files_left, op_result, files_done, cancel_hit,
                   ops_started, not_eng>>

\* CancellationToken::cancel, from any holder of a clone of the token
Cancel ==
    /\ cancelled' = TRUE
    /\ cancel_hit' = [t \in Engines |-> cancel_hit[t] \/ op_pc[t] \in {"session", "files"}]
    /\ UNCHANGED <<busy, op_pc, manifest, files_left, op_result, files_done, ops_started,
                   not_eng>>

NextEngine ==
    \/ \E t \in Engines : OpAcquire(t)
    \/ \E t \in Engines : SpuriousWake(t)
    \/ \E t \in Engines : OpRecheck(t)
    \/ \E t \in Engines : OpSessionNew(t)
    \/ \E t \in Engines : OpFile(t)
    \/ \E t \in Engines : OpFinish(t)
    \/ \E t \in Engines : OpSessionDrop(t)
    \/ \E t \in Engines : OpRelease(t)
    \/ Cancel

\* operations started on an engine and its clones, and calls of cancel
SpecEngine == Init /\ [][NextEngine]_vars

\* the same, with every thread that can take a step taking it in the end; a wakeup that
\* no notify caused is never owed
SpecEngineFair ==
    /\ SpecEngine
    /\ \A t \in Engines :
          /\ WF_vars(OpRecheck(t))
          /\ WF_vars(OpSessionNew(t))
          /\ WF_vars(OpFile(t))
          /\ WF_vars(OpFinish(t))
          /\ WF_vars(OpSessionDrop(t))
          /\ WF_vars(OpRelease(t))

\* ------------------------------ the idle detector in the worker loop

\* global_cpu_usage readings, in percent
CpuReadings == {5, 30, 80}

\* an is_idle that keeps the start of idleness over a busy sample
is_idle_keep_start(d, cpu_usage, t) ==
    IF cpu_usage < d.config.cpu_threshold_percent
    THEN LET idle_start == IF d.idle_since = <<>> THEN t ELSE d.idle_since[1]
         IN [idle |-> t - idle_start >= d.config.idle_duration,
             detector |-> [d EXCEPT !.idle_since = <<idle_start>>]]
    ELSE [idle |-> FALSE, detector |-> d]

\* IdleDetector::is_idle at time t: the answer and the detector it leaves
is_idle(d, cpu_usage, t) ==
    IF cpu_usage < d.config.cpu_threshold_percent
    THEN LET idle_start == IF d.idle_since = <<>> THEN t ELSE d.idle_since[1]
         IN [idle |-> t - idle_start >= d.config.idle_duration,
             detector |-> [d EXCEPT !.idle_since = <<idle_start>>]]
    ELSE [idle |-> FALSE, detector |-> [d EXCEPT !.idle_since = <<>>]]

\* IdleDetector::update_config
update_config(d, config) == [config |-> config, idle_since |-> <<>>]

\* one pass of auto_loop's loop body, as far as the idle detector and the active job go:
\* the config updates, the poll of the result channel, is_idle, the cancel of the active
\* job and the spawn of a job that tick hands out
WorkerPass ==
    \E update \in {<<>>} \cup {<<c>> : c \in IdleConfigs},
       got_result \in BOOLEAN, cpu_usage \in CpuReadings, compress \in BOOLEAN :
        LET configured == IF update = <<>> THEN idle_detector
                          ELSE update_config(idle_detector, update[1])
            polled == IF active_compression # <<>> /\ got_result
                      THEN <<>> ELSE active_compression
            answer == is_idle(configured, cpu_usage, idle_now)
            checked == IF ~answer.idle /\ polled # <<>>
                       THEN <<[polled[1] EXCEPT !.cancelled = TRUE]>> ELSE polled
        IN /\ idle_detector' = answer.detector
           /\ active_compression' = IF compress /\ answer.idle /\ polled = <<>>
                                    THEN <<[cancelled |-> FALSE]>> ELSE checked
           /\ iteration' = [update |-> update, cpu_usage |-> cpu_usage,
                            is_idle |-> answer.idle]
           /\ UNCHANGED <<idle_now, not_idle>>

\* time passes between two passes
IdleClock ==
    /\ idle_now < MaxIdleNow
    /\ idle_now' = idle_now + 1
    /\ UNCHANGED <<idle_detector, active_compression, iteration, not_idle>>

NextIdle ==
    \/ WorkerPass
    \/ IdleClock

\* auto_loop's passes with the idle detector, config updates and one active job
SpecIdle == Init /\ [][NextIdle]_vars

\* ------------------------------------------------------ the game watcher

\* the directories a config may name, and the configs an update may carry
WatchRoots == {"A", "B"}
WatcherConfigs == [watch_paths : {{}, {"A"}, {"A", "B"}}, cooldown : {60, 300}]

\* what the operating system answers during a start: whether the notify watcher and the
\* thread can be created, and which directories exist
OsAnswers == [notify_ok : BOOLEAN, spawn_ok : BOOLEAN, exists : {{"A"}, WatchRoots}]
OsAllOk(os) == os.notify_ok /\ os.spawn_ok

\* GameWatcher::is_running
gw_is_running(w) == w.worker_handle # <<>> /\ ~w.stop_flag

\* the fields start leaves once the notify watcher exists; the thread holds the cooldown
\* and the watch paths it was spawned with
Started(w, os) ==
    [w EXCEPT !.stop_flag = FALSE,
              !.watcher = <<w.config.watch_paths \cap os.exists>>,
              !.event_rx = TRUE,
              !.worker_handle = IF os.spawn_ok
                                THEN <<[cooldown |-> w.config.cooldown,
                                        watch_paths |-> w.config.watch_paths]>>
                                ELSE @]

gw_start_unguarded(w, os) ==
    IF w.config.watch_paths = {} THEN [w |-> w, result |-> "Ok", spawned |-> 0]
    ELSE IF ~os.notify_ok
    THEN [w |-> [w EXCEPT !.stop_flag = FALSE], result |-> "Err", spawned |-> 0]
    ELSE [w |-> Started(w, os), result |-> IF os.spawn_ok THEN "Ok" ELSE "Err",
          spawned |-> IF os.spawn_ok THEN 1 ELSE 0]

\* GameWatcher::start: the watcher it leaves, its result and the threads it spawned
gw_start(w, os) ==
    IF w.worker_handle # <<>> THEN [w |-> w, result |-> "Err", spawned |-> 0]
    ELSE IF w.config.watch_paths = {} THEN [w |-> w, result |-> "Ok", spawned |-> 0]
    ELSE IF ~os.notify_ok
    THEN [w |-> [w EXCEPT !.stop_flag = FALSE], result |-> "Err", spawned |-> 0]
    ELSE [w |-> Started(w, os), result |-> IF os.spawn_ok THEN "Ok" ELSE "Err",
          spawned |-> IF os.spawn_ok THEN 1 ELSE 0]

\* GameWatcher::stop: the watcher it leaves and the threads it joined
gw_stop(w) ==
    [w |-> [w EXCEPT !.stop_flag = TRUE, !.watcher = <<>>, !.worker_handle = <<>>,
                     !.event_rx = FALSE],
     joined |-> IF w.worker_handle # <<>> THEN 1 ELSE 0]

\* GameWatcher::update_config
gw_update_config(w, config, os) ==
    LET was_running == gw_is_running(w)
        stopped == IF was_running THEN gw_stop(w) ELSE [w |-> w, joined |-> 0]
        configured == [stopped.w EXCEPT !.config = config]
        started == IF was_running THEN gw_start(configured, os)
                   ELSE [w |-> configured, result |-> "Ok", spawned |-> 0]
    IN [w |-> started.w, threads |-> started.spawned - stopped.joined]

WatcherStartCall ==
    \E os \in OsAnswers :
        /\ game_watcher' = gw_start(game_watcher, os).w
        /\ watcher_threads' = watcher_threads + gw_start(game_watcher, os).spawned
        /\ watcher_ret' = [op |-> "start", result |-> gw_start(game_watcher, os).result,
                           config |-> game_watcher.config, os_ok |-> OsAllOk(os),
                           was_running |-> gw_is_running(game_watcher)]
        /\ UNCHANGED not_gw

WatcherStopCall ==
    /\ game_watcher' = gw_stop(game_watcher).w
    /\ watcher_threads' = watcher_threads - gw_stop(game_watcher).joined
    /\ watcher_ret' = [op |-> "stop", result |-> "Ok", config |-> game_watcher.config,
                       os_ok |-> TRUE, was_running |-> gw_is_running(game_watcher)]
    /\ UNCHANGED not_gw

\* apply_config's call of update_config
WatcherUpdateConfig ==
    \E config \in WatcherConfigs, os \in OsAnswers :
        /\ game_watcher' = gw_update_config(game_watcher, config, os).w
        /\ watcher_threads' = watcher_threads + gw_update_config(game_watcher, config, os).threads
        /\ watcher_ret' = [op |-> "update_config", result |-> "Ok", config |-> config,
                           os_ok |-> OsAllOk(os),
                           was_running |-> gw_is_running(game_watcher)]
        /\ UNCHANGED not_gw

NextWatcher ==
    \/ WatcherStartCall
    \/ WatcherStopCall
    \/ WatcherUpdateConfig

\* the calls auto_loop and the watcher's other owners make on a GameWatcher
SpecWatcher == Init /\ [][NextWatcher]_vars

\* ------------------------------------- compress_game and cancel_compression

\* the CompressionStats an operation may end with; the first is what an operation over
\* a folder without files ends with
ZeroStats == [original_bytes |-> 0, compressed_bytes |-> 0, files_processed |-> 0,
              files_skipped |-> 0, duration_ms |-> 0]
EngineStats == {ZeroStats,
                [original_bytes |-> 2, compressed_bytes |-> 1, files_processed |-> 1,
                 files_skipped |-> 0, duration_ms |-> 1]}

\* FrbCompressionStats of a cancelled operation
cancelled_stats == ZeroStats

FrbOk(stats) == [tag |-> "Ok", stats |-> <<stats>>, error |-> <<>>]
FrbErr(error) == [tag |-> "Err", stats |-> <<>>, error |-> <<error>>]
EngineOk(stats) == [tag |-> "Ok", stats |-> <<stats>>, error |-> <<>>]
EngineErr(error) == [tag |-> "Err", stats |-> <<>>, error |-> <<error>>]

\* what handle.result.recv().ok() may give compress_game: Some(Ok(stats)), Some(Err(e)) or
\* None; Err(Cancelled) only from an engine whose token is cancelled
EngineResults(token) ==
    {<<EngineOk(stats)>> : stats \in EngineStats}
        \cup {<<EngineErr("DiskFull")>>, <<>>}
        \cup (IF token THEN {<<EngineErr("Cancelled")>>} ELSE {})

\* the match on the result at the end of compress_game
compress_game_return(result, token) ==
    IF result = <<>>
    THEN IF token THEN FrbOk(cancelled_stats)
         ELSE FrbErr("IoError: Compression ended without a result")
    ELSE IF result[1].tag = "Ok" THEN FrbOk(result[1].stats[1])
    ELSE IF result[1].error[1] = "Cancelled" THEN FrbOk(cancelled_stats)
    ELSE FrbErr(result[1].error[1])

\* compress_game up to the start of the operation: the slot is taken unless it is held,
\* and given back when the operation cannot be started
CompressGameStart(c) ==
    /\ api_pc[c] = "idle"
    /\ api_token' = [api_token EXCEPT ![c] = FALSE]
    /\ api_result' = [api_result EXCEPT ![c] = <<>>]
    /\ IF ACTIVE # <<>>
       THEN /\ api_ret' = [api_ret EXCEPT ![c] =
                    <<FrbErr("IoError: A compression operation is already in progress")>>]
            /\ api_pc' = [api_pc EXCEPT ![c] = "returned"]
            /\ UNCHANGED ACTIVE
       ELSE \E started \in BOOLEAN :
              IF started
              THEN /\ ACTIVE' = <<c>>
                   /\ api_pc' = [api_pc EXCEPT ![c] = "forwarding"]
                   /\ api_ret' = [api_ret EXCEPT ![c] = <<>>]
              ELSE /\ ACTIVE' = <<>>
                   /\ api_pc' = [api_pc EXCEPT ![c] = "returned"]
                   /\ api_ret' = [api_ret EXCEPT ![c] = <<FrbErr("PathNotFound")>>]
    /\ UNCHANGED not_api

\* cancel_compression: cancels the token in the slot, if any
cancel_compression ==
    /\ IF ACTIVE # <<>>
       THEN api_token' = [api_token EXCEPT ![ACTIVE[1]] = TRUE]
       ELSE UNCHANGED api_token
    /\ UNCHANGED <<ACTIVE, api_pc, api_result, api_ret, not_api>>

\* the progress loop finds the sink closed and cancels the call's own token
SinkClosed(c) ==
    /\ api_pc[c] = "forwarding"
    /\ api_token' = [api_token EXCEPT ![c] = TRUE]
    /\ UNCHANGED <<ACTIVE, api_pc, api_result, api_ret, not_api>>

\* the progress channel disconnects and the result is read
ResultRecv(c) ==
    /\ api_pc[c] = "forwarding"
    /\ \E result \in EngineResults(api_token[c]) :
            api_result' = [api_result EXCEPT ![c] = result]
    /\ api_pc' = [api_pc EXCEPT ![c] = "cleanup"]
    /\ UNCHANGED <<ACTIVE, api_token, api_ret, not_api>>

\* the slot is emptied
Cleanup(c) ==
    /\ api_pc[c] = "cleanup"
    /\ ACTIVE' = <<>>
    /\ api_pc' = [api_pc EXCEPT ![c] = "match"]
    /\ UNCHANGED <<api_token, api_result, api_ret, not_api>>

\* the result is turned into the value compress_game returns
CompressGameReturn(c) ==
    /\ api_pc[c] = "match"
    /\ api_ret' = [api_ret EXCEPT ![c] = <<compress_game_return(api_result[c], api_token[c])>>]
    /\ api_pc' = [api_pc EXCEPT ![c] = "returned"]
    /\ UNCHANGED <<ACTIVE, api_token, api_result, not_api>>

\* the caller is ready for its next compress_game
CallAgain(c) ==
    /\ api_pc[c] = "returned"
    /\ api_pc' = [api_pc EXCEPT ![c] = "idle"]
    /\ UNCHANGED <<ACTIVE, api_token, api_result, api_ret, not_api>>

NextApi ==
    \/ cancel_compression
    \/ \E c \in ApiCalls :
          \/ CompressGameStart(c)
          \/ SinkClosed(c)
          \/ ResultRecv(c)
          \/ Cleanup(c)
          \/ CompressGameReturn(c)
          \/ CallAgain(c)

\* the compression API called from any number of Dart isolates
SpecApi == Init /\ [][NextApi]_vars

\* ------------------------------------------ events for excluded folders

\* the excluded folder in both cases, a folder below it and a folder apart from it
ExclusionPaths == { <<"X">>, <<"x">>, <<"X", "G">>, <<"G">> }

ExclusionEvent ==
    /\ Callable
    /\ \E ev \in {"GameInstalled", "GameModified"}, path \in ExclusionPaths :
            on_event(ev, path)
    /\ next_id' <= MaxJobs
    /\ UNCHANGED <<alive, disk_vars, now, restarts, pre, wpc, active>>
    /\ UNCHANGED comp_vars

NextExclusion ==
    \/ ExclusionEvent
    \/ Tick
    \/ JobCompleted
    \/ JobSkipped

\* a scheduler that is told of installs and changes in and around an excluded folder
SpecExclusion == Init /\ [][NextExclusion]_vars

\* --------------------------------------------- many jobs that finish

\* a GameInstalled event for a folder not seen before, while at most one job is unfinished
PruneInstall ==
    /\ Callable
    /\ Cardinality({i \in 1..Len(queue) : ~IsFinished(queue[i])}) <= 1
    /\ next_id < MaxPruneJobs
    /\ on_event("GameInstalled", InstallPath(next_id + 1))
    /\ UNCHANGED <<alive, disk_vars, now, restarts, pre, wpc, active>>
    /\ UNCHANGED comp_vars

\* the keys of the jobs that have not finished
UnfinishedKeys == {queue[i].idempotency_key : i \in {k \in 1..Len(queue) : ~IsFinished(queue[k])}}

PruneJobCompleted ==
    /\ Callable
    /\ \E key \in UnfinishedKeys : job_completed(key)
    /\ UNCHANGED <<alive, disk_vars, now, restarts, pre, wpc, active>>
    /\ UNCHANGED comp_vars

PruneJobFailed ==
    /\ Callable
    /\ Cardinality({i \in 1..Len(queue) : queue[i].status = "Failed"}) < MaxPruneOther
    /\ \E key \in UnfinishedKeys : job_failed(key)
    /\ consecutive_failures' <= MaxFailures
    /\ UNCHANGED <<alive, disk_vars, now, restarts, pre, wpc, active>>
    /\ UNCHANGED comp_vars

PruneJobSkipped ==
    /\ Callable
    /\ Cardinality({i \in 1..Len(queue) : queue[i].status = "Skipped"}) < MaxPruneOther
    /\ \E key \in UnfinishedKeys : job_skipped(key)
    /\ UNCHANGED <<alive, disk_vars, now, restarts, pre, wpc, active>>
    /\ UNCHANGED comp_vars

\* a tick on an idle machine, with the cooldown or the backoff over
PruneTick ==
    /\ Callable
    /\ tick(TRUE, TRUE)
    /\ UNCHANGED <<alive, disk_vars, now, restarts, pre, wpc, active>>
    /\ UNCHANGED comp_vars

NextPrune ==
    \/ PruneInstall
    \/ PruneTick
    \/ PruneJobCompleted
    \/ PruneJobFailed
    \/ PruneJobSkipped

\* an owner whose jobs, each for a folder of its own, finish in every way
SpecPrune == Init /\ [][NextPrune]_vars

\* ------------------------- start_auto_compression and stop_auto_compression

\* the worker threads whose auto_loop has not returned
AliveLoops == {w \in 1..Len(auto_loops) : auto_loops[w] # "returned"}

\* start_auto_compression, all of it under the lock of ACTIVE_AUTO
start_auto_compression(c, spawn_ok) ==
    IF ACTIVE_AUTO # <<>>
    THEN /\ auto_ret' = [auto_ret EXCEPT ![c] = "AlreadyRunning"]
         /\ UNCHANGED <<ACTIVE_AUTO, auto_loops>>
    ELSE IF spawn_ok
    THEN /\ auto_loops' = Append(auto_loops, "looping")
         /\ ACTIVE_AUTO' = <<Len(auto_loops) + 1>>
         /\ auto_ret' = [auto_ret EXCEPT ![c] = "Ok"]
    ELSE /\ auto_ret' = [auto_ret EXCEPT ![c] = "StartFailed"]
         /\ UNCHANGED <<ACTIVE_AUTO, auto_loops>>

StartAutoCompression(c) ==
    /\ auto_pc[c] = <<>>
    /\ Len(auto_loops) < MaxAutoStarts
    /\ \E spawn_ok \in BOOLEAN : start_auto_compression(c, spawn_ok)
    /\ UNCHANGED <<auto_pc, not_auto>>

\* stop_auto_compression up to the send: the slot is emptied under the lock, the lock
\* released, and the stop message sent to the worker taken from the slot
StopTake(c) ==
    /\ auto_pc[c] = <<>>
    /\ IF ACTIVE_AUTO = <<>>
       THEN /\ auto_ret' = [auto_ret EXCEPT ![c] = "NotRunning"]
            /\ UNCHANGED <<ACTIVE_AUTO, auto_loops, auto_pc>>
       ELSE /\ ACTIVE_AUTO' = <<>>
            /\ auto_pc' = [auto_pc EXCEPT ![c] = ACTIVE_AUTO]
            /\ auto_loops' = [auto_loops EXCEPT ![ACTIVE_AUTO[1]] = "stopping"]
            /\ auto_ret' = [auto_ret EXCEPT ![c] = "None"]
    /\ UNCHANGED not_auto

\* auto_loop receives the stop message, shuts down and returns
AutoLoopReturn(w) ==
    /\ w \in 1..Len(auto_loops)
    /\ auto_loops[w] = "stopping"
    /\ auto_loops' = [auto_loops EXCEPT ![w] = "returned"]
    /\ UNCHANGED <<ACTIVE_AUTO, auto_pc, auto_ret, not_auto>>

\* stop_auto_compression from the join on: it returns once the worker has ended
StopJoin(c) ==
    /\ auto_pc[c] # <<>>
    /\ auto_loops[auto_pc[c][1]] = "returned"
    /\ auto_pc' = [auto_pc EXCEPT ![c] = <<>>]
    /\ auto_ret' = [auto_ret EXCEPT ![c] = "Ok"]
    /\ UNCHANGED <<ACTIVE_AUTO, auto_loops, not_auto>>

NextAuto ==
    \/ \E c \in AutoCallers :
          \/ StartAutoCompression(c)
          \/ StopTake(c)
          \/ StopJoin(c)
    \/ \E w \in 1..MaxAutoStarts : AutoLoopReturn(w)

\* the automation service started and stopped from two threads
SpecAuto == Init /\ [][NextAuto]_vars

\* ------------------------------------------------ runs of failed jobs

\* an install of one of the two game folders of this specification
BackoffEvent ==
    /\ Callable
    /\ \E path \in CoalescedPaths : on_event("GameInstalled", path)
    /\ next_id' <= MaxBackoffFailures + 1
    /\ UNCHANGED <<alive, disk_vars, now, restarts, pre, wpc, active>>
    /\ UNCHANGED comp_vars

BackoffJobFailed ==
    /\ Callable
    /\ \E key \in QueueKeys : job_failed(key)
    /\ consecutive_failures' <= MaxBackoffFailures
    /\ UNCHANGED <<alive, disk_vars, now, restarts, pre, wpc, active>>
    /\ UNCHANGED comp_vars

NextBackoff ==
    \/ BackoffEvent
    \/ Tick
    \/ BackoffJobFailed
    \/ JobCompleted

\* a scheduler whose jobs for two folders fail and complete in any order
SpecBackoff == Init /\ [][NextBackoff]_vars

\* ------------------------------------------------------------ the claims

CompressingCount == Cardinality({i \in 1..Len(queue) : queue[i].status = "Compressing"})

\* C1: in every reachable state at most one queued job has status Compressing.
C1_AtMostOneCompressing == CompressingCount <= 1

\* C3: every queued job whose status is Pending, WaitingForSettle or
\* WaitingForIdle has a journal entry with the same idempotency_key.
C3_PendingJobHasJournalEntry ==
    \A i \in 1..Len(queue) :
        IsPending(queue[i]) => HasKey(journal, queue[i].idempotency_key)

\* C7 as stated: the journal holds no entry for a job whose status is
\* Compressing, Completed, Failed or Skipped.
C7_NoEntryOnceOutOfPending ==
    \A i \in 1..Len(queue) :
        ~IsPending(queue[i]) => ~HasKey(journal, queue[i].idempotency_key)

AnyHook(key) == job_completed(key) \/ job_failed(key) \/ job_skipped(key)

\* C7 as amended: a tick, the one that returns Compress included, leaves the
\* journal as it is; the entry is removed by the outcome hook, after which the
\* journal holds no entry with the hook's key.
C7_EntryRemovedByOutcomeHook ==
    [][/\ Tick => journal' = journal
       /\ \A key \in QueueKeys : (Callable /\ AnyHook(key)) => ~HasKey(journal', key)]_vars

\* a tick has returned Compress for a job whose entry is still in the journal,
\* and an outcome hook has left another job terminal with no entry
C7_Witness ==
    /\ \E i \in 1..Len(queue) :
           queue[i].status = "Compressing" /\ HasKey(journal, queue[i].idempotency_key)
    /\ \E i \in 1..Len(queue) :
           IsFinished(queue[i]) /\ ~HasKey(journal, queue[i].idempotency_key)

\* C8: no two jobs in the queue share an idempotency_key, so a (lower-cased
\* path, epoch second) pair has at most one queued pending job.
C8_UniqueIdempotencyKeys ==
    \A i, k \in 1..Len(queue) :
        i # k => queue[i].idempotency_key # queue[k].idempotency_key

\* C10: once a job has a terminal status, no later call changes its status.
C10_TerminalStatusIsFinal ==
    [][\A i \in 1..Len(queue) : \A k \in 1..Len(queue') :
          (IsFinished(queue[i]) /\ queue'[k].id = queue[i].id)
              => queue'[k].status = queue[i].status]_vars

CommittedFile == IF committed = <<>> THEN <<>> ELSE <<[data |-> committed[1], whole |-> TRUE]>>

\* C4: whatever step a flush is interrupted at, the file at the journal path
\* is absent (nothing committed yet) or holds, whole, the entry list of the
\* last flush that reached its rename; and load reads that file only, never
\* the .tmp file.
C4_FlushIsAtomic ==
    /\ [](file = CommittedFile)
    /\ [][JLoad => journal' = (IF committed = <<>> THEN <<>> ELSE committed[1])]_vars

\* after a crash in the middle of a later flush, with a partial .tmp file left
\* behind, load has brought back the committed entries
C4_Witness ==
    /\ alive
    /\ restarts = 1
    /\ tmp # <<>> /\ ~tmp[1].whole
    /\ committed # <<>> /\ committed[1] # <<>>
    /\ committed[1] # tmp[1].data
    /\ journal = committed[1]
    /\ flush_pc = "idle"

JustRestored == alive /\ wpc = "started" /\ restarts > 0

SameJob(a, b) ==
    /\ a.idempotency_key = b.idempotency_key
    /\ a.game_path = b.game_path
    /\ a.kind = b.kind

\* C5: when the journal file held the whole journal as the process stopped,
\* the scheduler restore_or_new builds from it has every job that was
\* pending before the stop (same key, path and kind), every job of it has
\* status Pending, and its state is WaitingForIdle when a job was restored
\* and WaitingForEvents otherwise. (Of "exactly the pending jobs" this states
\* the half that no pending job is lost.)
C5_RestoreYieldsPendingJobs ==
    (JustRestored /\ pre.synced)
        => /\ \A i \in 1..Len(pre.queue) :
                  IsPending(pre.queue[i])
                      => \E k \in 1..Len(queue) :
                             SameJob(queue[k], pre.queue[i]) /\ queue[k].status = "Pending"
           /\ \A k \in 1..Len(queue) : queue[k].status = "Pending"
           /\ state = IF queue # <<>> THEN "WaitingForIdle" ELSE "WaitingForEvents"

\* C6: when the process stopped (crash or shutdown) with a job Compressing
\* whose outcome the worker had not dispatched, and the journal file held the
\* whole journal, the scheduler restore_or_new builds has a job of that key
\* with status Pending.
C6_CompressingJobRequeued ==
    (JustRestored /\ pre.synced /\ pre.active # 0)
        => \A i \in 1..Len(pre.queue) :
               (pre.queue[i].id = pre.active /\ pre.queue[i].status = "Compressing")
                   => \E k \in 1..Len(queue) :
                          /\ queue[k].idempotency_key = pre.queue[i].idempotency_key
                          /\ queue[k].status = "Pending"

\* C9: the queue never holds more than MAX_QUEUE_SIZE jobs.
C9_QueueBounded == Len(queue) <= MAX_QUEUE_SIZE

InJournal(entries, e) == \E i \in 1..Len(entries) : entries[i] = e

\* C11: on_event(GameUninstalled{path}) removes every queued job whose
\* game_path is path and every journal entry whose key starts with
\* lowercase(path) + ":", marks persistence pending, and leaves the jobs and
\* the journal entries of every other path, and the scheduler state, as they were.
C11_UninstallFrame ==
    [][\A path \in GamePaths :
          (Callable /\ on_event("GameUninstalled", path))
              => /\ \A k \in 1..Len(queue') : queue'[k].game_path # path
                 /\ \A i \in 1..Len(journal') :
                        ~starts_with(journal'[i].idempotency_key,
                                     to_ascii_lowercase(path) \o <<":">>)
                 /\ needs_persist'
                 /\ state' = state
                 /\ \A i \in 1..Len(queue) :
                        queue[i].game_path # path
                            => \E k \in 1..Len(queue') : queue'[k] = queue[i]
                 /\ \A i \in 1..Len(journal) :
                        journal[i].game_path # path => InJournal(journal', journal[i])]_vars

Unanswered(path) == last_ingest[path] # <<>> /\ ~last_ingest[path][1].answered

\* C12: drain_settled returns an event for a path only when the cooldown has
\* passed since the most recent ingest for it; it then returns one event for
\* the path, of the kind of that ingest, and takes the path out of the
\* pending map, so that a burst of ingests is answered by one settled event.
C12_BurstCoalescing ==
    [][DrainSettled =>
          /\ \A i \in 1..Len(settled') :
                 /\ Unanswered(settled'[i].path)
                 /\ clock - last_ingest[settled'[i].path][1].at >= CooldownTicks
                 /\ settled'[i].ev = WatchEventOf(last_ingest[settled'[i].path][1]
                                                      @@ [path |-> <<>>, game_name |-> <<>>]).ev
                 /\ pending'[settled'[i].path] = <<>>
          /\ \A i, k \in 1..Len(settled') : i # k => settled'[i].path # settled'[k].path
          /\ \A path \in CoalescedPaths :
                 (Unanswered(path) /\ clock - last_ingest[path][1].at >= CooldownTicks)
                     => \E i \in 1..Len(settled') : settled'[i].path = path]_vars

\* a burst of ingests ending in Modified has been answered by one GameModified event
C12_Witness ==
    /\ Len(settled) = 1
    /\ settled[1].ev = "GameModified"
    /\ last_ingest[settled[1].path] # <<>>
    /\ last_ingest[settled[1].path][1].burst
    /\ last_ingest[settled[1].path][1].answered
    /\ pending[settled[1].path] = <<>>

\* C13: an operation's reporter sends exactly one snapshot with is_complete = TRUE: none
\* before the done signal is stored, whatever the counters say, one by the time the
\* reporter thread has ended, none after it, and the consumer that empties the channel
\* has received it exactly once.
C13_ExactlyOneCompletion ==
    /\ [](/\ sent.complete <= 1
          /\ received.complete <= 1
          /\ (sent.complete = 1 => done)
          /\ (rep_pc = "exited" => sent.complete = 1)
          /\ (rep_pc = "exited" /\ chan = <<>> => received.complete = 1))
    /\ [][sent.complete = 1 => sent'.n = sent.n]_vars

\* the consumer has taken a progress snapshot and then the completion snapshot, and the
\* engine thread has joined the reporter
C13_Witness ==
    /\ eng_pc = "joined"
    /\ received.n >= 2
    /\ received.complete = 1

\* C14: every snapshot the reporter sends has files_processed <= files_total, and from one
\* snapshot sent to the next files_processed, bytes_original and bytes_compressed do not
\* decrease, however the engine's counter updates fall between the reporter's loads.
C14_SnapshotsMonotone ==
    /\ [](last_emitted # <<>> => last_emitted[1].files_processed <= last_emitted[1].files_total)
    /\ [][sent'.n # sent.n /\ last_emitted # <<>> =>
            /\ last_emitted'[1].files_processed >= last_emitted[1].files_processed
            /\ last_emitted'[1].bytes_original >= last_emitted[1].bytes_original
            /\ last_emitted'[1].bytes_compressed >= last_emitted[1].bytes_compressed]_vars

\* a second snapshot was sent whose files_total is above the counter: the loads saw more
\* files processed than files in total
C14_Witness ==
    /\ sent.n >= 2
    /\ last_emitted # <<>>
    /\ last_emitted[1].files_total > counters.files_total
    /\ last_emitted[1].bytes_original > 0

C17_UpdateDoesNotCancel ==
    [][/\ active_compression # <<>>
       /\ ~active_compression[1].cancelled
       /\ active_compression' # <<>>
       /\ active_compression'[1].cancelled
       /\ iteration'.update # <<>>
       => ~is_idle([idle_detector EXCEPT !.config = iteration'.update[1]],
                   iteration'.cpu_usage, idle_now).idle]_vars

\* C18: after update_config(cfg), with every operating system call of the restart
\* succeeding and cfg naming at least one watch path, the watcher is running and its
\* worker thread uses cfg.watch_paths and cfg.cooldown.
C18_UpdateConfigRestarts ==
    watcher_ret.op = "update_config" /\ watcher_ret.os_ok /\ watcher_ret.config.watch_paths # {}
        => /\ gw_is_running(game_watcher)
           /\ game_watcher.worker_handle[1].watch_paths = watcher_ret.config.watch_paths
           /\ game_watcher.worker_handle[1].cooldown = watcher_ret.config.cooldown

\* C19 as stated: start on a running watcher and stop on a stopped one succeed and leave
\* the watcher running, respectively stopped, with at most one worker thread.
C19_StartStopIdempotent ==
    /\ watcher_threads <= 1
    /\ (watcher_ret.op = "start" /\ watcher_ret.was_running
          => watcher_ret.result = "Ok" /\ gw_is_running(game_watcher))
    /\ (watcher_ret.op = "stop" /\ ~watcher_ret.was_running
          => watcher_ret.result = "Ok" /\ ~gw_is_running(game_watcher))

\* C19 as amended: start on a running watcher returns an error and changes none of its
\* fields, stop on a stopped watcher leaves it stopped, and there is never more than one
\* worker thread.
C19_StartRefusedStopIdempotent ==
    /\ [](watcher_threads <= 1)
    /\ [][/\ (watcher_ret'.op = "start" /\ watcher_ret'.was_running
               => /\ watcher_ret'.result = "Err"
                  /\ game_watcher' = game_watcher
                  /\ watcher_threads' = watcher_threads)
          /\ (watcher_ret'.op = "stop" /\ ~watcher_ret'.was_running
               => /\ ~gw_is_running(game_watcher')
                  /\ watcher_threads' = watcher_threads)]_vars

\* start was called on a watcher that was running with its one worker thread
C19_Witness ==
    /\ watcher_ret.op = "start"
    /\ watcher_ret.was_running
    /\ watcher_threads = 1

CompletedJobs(q) == {i \in 1..Len(q) : q[i].status = "Completed"}

\* C20: the n-th consecutive job_failed leaves a delay of
\* min(INITIAL_BACKOFF * 2^(n-1), MAX_BACKOFF): never above MAX_BACKOFF, INITIAL_BACKOFF
\* for the first failure, and a job_completed resets the count of consecutive failures.
C20_BackoffLadder ==
    /\ [](backoff_until # <<>> => backoff_until[1] <= MAX_BACKOFF)
    /\ [][consecutive_failures' = consecutive_failures + 1 =>
            /\ backoff_until' =
                 <<IF INITIAL_BACKOFF * 2^(consecutive_failures' - 1) <= MAX_BACKOFF
                   THEN INITIAL_BACKOFF * 2^(consecutive_failures' - 1)
                   ELSE MAX_BACKOFF>>
            /\ (consecutive_failures = 0 => backoff_until' = <<INITIAL_BACKOFF>>)]_vars
    /\ [][Cardinality(CompletedJobs(queue')) > Cardinality(CompletedJobs(queue))
            => consecutive_failures' = 0]_vars

\* a job completed, then seven jobs failed in a row and the delay is the cap
C20_Witness ==
    /\ CompletedJobs(queue) # {}
    /\ consecutive_failures = MaxBackoffFailures
    /\ backoff_until = <<MAX_BACKOFF>>

\* C21: is_idle answers true only if the sample of this call is below the threshold and
\* idle_duration has passed since the recorded start; the recorded start survives a call
\* only if that call's sample was below the threshold and no update_config came before
\* it, so every sample since the start was below the threshold; a sample at or above the
\* threshold clears the start and answers false, and the first call after an
\* update_config starts anew and answers false when idle_duration > 0.
C21_IdleHysteresis ==
    [][iteration' # iteration \/ idle_detector' # idle_detector =>
        LET cfg == idle_detector'.config
            busy_sample == iteration'.cpu_usage >= cfg.cpu_threshold_percent
        IN /\ iteration'.is_idle =>
                /\ ~busy_sample
                /\ idle_detector'.idle_since # <<>>
                /\ idle_now - idle_detector'.idle_since[1] >= cfg.idle_duration
           /\ busy_sample => ~iteration'.is_idle /\ idle_detector'.idle_since = <<>>
           /\ iteration'.update # <<>> =>
                /\ cfg = iteration'.update[1]
                /\ idle_detector'.idle_since \in {<<>>, <<idle_now>>}
                /\ (cfg.idle_duration > 0 => ~iteration'.is_idle)
           /\ (idle_detector'.idle_since # <<>> /\ idle_detector'.idle_since # <<idle_now>>)
                => /\ idle_detector'.idle_since = idle_detector.idle_since
                   /\ idle_detector'.config = idle_detector.config
                   /\ ~busy_sample]_vars

\* the machine was below the threshold for the whole idle_duration and is_idle said so
C21_Witness ==
    /\ iteration.is_idle
    /\ idle_detector.config.idle_duration > 0
    /\ idle_detector.idle_since # <<>>
    /\ idle_now - idle_detector.idle_since[1] >= idle_detector.config.idle_duration

\* C22: when the worker dispatches the result of a job that spawn_compression_job
\* rejected (a game running in its folder, or DirectStorage detected), the job is not
\* marked Failed, the count of consecutive failures does not grow and the scheduler does
\* not enter Backoff.
C22_RejectionIsNotFailure ==
    [][(/\ wpc = "result"
        /\ wpc' = "events"
        /\ active # <<>>
        /\ active' = <<>>
        /\ ~active[1].started
        /\ (active[1].ds \/ active[1].running))
       => /\ consecutive_failures' = consecutive_failures
          /\ (state' = "Backoff" => state = "Backoff")
          /\ \A i \in 1..Len(queue') :
                (queue'[i].id = active[1].id) => queue'[i].status # "Failed"]_vars

\* what compress_game returns for the operations that ran to their end
SuccessReturns == {compress_game_return(<<EngineOk(stats)>>, FALSE) : stats \in EngineStats}

\* C23: a compress_game whose operation ended Cancelled after cancel_compression returns
\* a value no successful operation returns, and when it has returned the slot is not
\* held by it, so a new compress_game can take it.
C23_CancelledIsDedicated ==
    \A c \in ApiCalls :
        (/\ api_pc[c] = "returned"
         /\ api_token[c]
         /\ api_result[c] = <<EngineErr("Cancelled")>>)
        => /\ api_ret[c][1] \notin SuccessReturns
           /\ ACTIVE # <<c>>

IsSubstring(sub, s) ==
    \E i \in 0..(Len(s) - Len(sub)) : SubSeq(s, i + 1, i + Len(sub)) = sub

\* the path contains, without regard to case, a configured excluded path
ContainsExcluded(path) ==
    \E e \in excluded_paths :
        IsSubstring(to_ascii_lowercase(e), to_ascii_lowercase(path))

\* C24: an Installed or Modified event for a path that contains an excluded path
\* enqueues no job and inserts no journal entry: no queued job and no journal entry is
\* ever for such a path.
C24_ExcludedNeverQueued ==
    /\ \A i \in 1..Len(queue) : ~ContainsExcluded(queue[i].game_path)
    /\ \A i \in 1..Len(journal) : ~ContainsExcluded(journal[i].game_path)

NoDuplicateKeys(entries) ==
    \A i, j \in 1..Len(entries) :
        entries[i].idempotency_key = entries[j].idempotency_key => i = j

\* C25: the journal never holds two entries with one idempotency_key; an insert with a
\* key that is present changes nothing, a load adds only entries whose key is absent
\* and keeps what was there, and a second load of the same file adds nothing.
C25_JournalKeysUnique ==
    /\ NoDuplicateKeys(journal)
    /\ \A entry \in JournalEntryChoices :
            HasKey(journal, entry.idempotency_key) => insert(journal, entry) = journal
    /\ LET once == load(journal)
       IN once.ok =>
            /\ NoDuplicateKeys(once.entries)
            /\ SubSeq(once.entries, 1, Len(journal)) = journal
            /\ \A i \in (Len(journal) + 1)..Len(once.entries) :
                    ~HasKey(journal, once.entries[i].idempotency_key)
            /\ load(once.entries).count = 0
            /\ load(once.entries).entries = once.entries

\* a writer that was loaded from its file after a stop holds an entry whose key another
\* entry is offered with, and its file holds an entry it does not hold
C25_Witness ==
    /\ alive
    /\ restarts > 0
    /\ \E entry \in JournalEntryChoices :
            /\ HasKey(journal, entry.idempotency_key)
            /\ \A i \in 1..Len(journal) : journal[i] # entry
    /\ load(journal).ok
    /\ load(journal).count > 0

\* C26: a resume step changes the state only from Paused, to WaitingForIdle if a job is
\* pending or Compressing and to WaitingForEvents otherwise (so with an empty queue it
\* ends in WaitingForEvents); a pause step ends in Paused from any state; neither
\* changes the queue or the journal.
C26_PauseResume ==
    [][/\ Resume =>
            /\ queue' = queue
            /\ journal' = journal
            /\ state # "Paused" => state' = state
            /\ state = "Paused" =>
                 state' = IF \E i \in 1..Len(queue) :
                                queue[i].status \in PendingStatuses \cup {"Compressing"}
                          THEN "WaitingForIdle" ELSE "WaitingForEvents"
            /\ (state = "Paused" /\ queue = <<>>) => state' = "WaitingForEvents"
       /\ Pause =>
            /\ state' = "Paused"
            /\ queue' = queue
            /\ journal' = journal]_vars

\* resume has taken a scheduler whose only unfinished job is Compressing out of Paused
C26_Witness ==
    /\ state = "WaitingForIdle"
    /\ has_active_job(queue)
    /\ ~has_pending_jobs(queue)
    /\ ret = NoAction

\* q2 is q1 without its oldest finished jobs, as many as q1 has above MAX_FINISHED_JOBS
PrunedOldestFirst(q1, q2) ==
    LET Fin(i) == q1[i].status \in TerminalStatuses
        excess == Cardinality({i \in 1..Len(q1) : Fin(i)}) - MAX_FINISHED_JOBS
        Rank(i) == Cardinality({j \in 1..i : Fin(j)})
        kept == {i \in 1..Len(q1) : ~Fin(i) \/ Rank(i) > excess}
    IN /\ Len(q2) = Cardinality(kept)
       /\ \A i \in kept : q2[Cardinality({j \in kept : j <= i})] = q1[i]

\* C27: the queue never holds more than MAX_FINISHED_JOBS finished jobs, so never more
\* than MAX_FINISHED_JOBS of one terminal status,
\* and a step of an outcome hook leaves the queue it found, with the status of the
\* hook's job set, less its oldest finished jobs above MAX_FINISHED_JOBS: every job that
\* is pending or Compressing after the status was set is kept.
C27_PruneFinished ==
    /\ [](/\ Cardinality({i \in 1..Len(queue) : IsFinished(queue[i])}) <= MAX_FINISHED_JOBS
          /\ \A status \in TerminalStatuses :
                Cardinality({i \in 1..Len(queue) : queue[i].status = status})
                    <= MAX_FINISHED_JOBS)
    /\ [][(PruneJobCompleted \/ PruneJobFailed \/ PruneJobSkipped) =>
            \E i \in 1..Len(queue), status \in TerminalStatuses :
                /\ ~IsFinished(queue[i])
                /\ PrunedOldestFirst([queue EXCEPT ![i].status = status], queue')
                /\ \A k \in 1..Len(queue) :
                      (k # i /\ ~IsFinished(queue[k]))
                          => \E m \in 1..Len(queue') : queue'[m] = queue[k]]_vars

\* ten jobs were made, the oldest finished ones are gone, eight finished jobs are kept
\* next to a job that is Compressing
C27_Witness ==
    /\ next_id = MaxPruneJobs
    /\ Cardinality({i \in 1..Len(queue) : IsFinished(queue[i])}) = MAX_FINISHED_JOBS
    /\ \A i \in 1..Len(queue) : queue[i].id > 1
    /\ \E i \in 1..Len(queue) : queue[i].status = "Compressing"

\* C28: start_auto_compression with a worker in the slot returns AlreadyRunning and
\* starts nothing, and at no time are two auto_loops alive.
C28_SingleWorker ==
    /\ [](Cardinality(AliveLoops) <= 1)
    /\ [][\A c \in AutoCallers :
            (ACTIVE_AUTO # <<>> /\ StartAutoCompression(c))
                => /\ auto_ret'[c] = "AlreadyRunning"
                   /\ auto_loops' = auto_loops
                   /\ ACTIVE_AUTO' = ACTIVE_AUTO]_vars

\* C29: the worker gives up its active compression only in a step that calls
\* job_completed, job_failed or job_skipped with the job's key: the step removes the
\* journal entry of the key and marks persistence pending, and the job dispatched is no
\* longer Compressing.
C29_OutcomeHookCalled ==
    [][(/\ wpc = "result"
        /\ wpc' = "events"
        /\ active # <<>>
        /\ active' = <<>>)
       => /\ needs_persist'
          /\ ~HasKey(journal', active[1].key)
          /\ \A i \in 1..Len(queue') :
                queue'[i].id = active[1].id => queue'[i].status # "Compressing"]_vars

\* the jobs that are Compressing after the step and were not before it
BecameCompressing ==
    {i \in 1..Len(queue') : /\ queue'[i].status = "Compressing"
                            /\ (i > Len(queue) \/ queue[i].status # "Compressing")}

\* C30: a tick returns Compress only when it takes the state from SafetyCheck to
\* Compressing, and then exactly one queued job changes status to Compressing: the job
\* the action names; a tick that returns Persist leaves the state as it is, and a tick
\* that returns no Compress makes no job Compressing.
C30_TickOneCompress ==
    [][Tick =>
        /\ Len(queue') = Len(queue)
        /\ ret'.act = "Persist" => state' = state
        /\ ret'.act # "Compress" => BecameCompressing = {}
        /\ ret'.act = "Compress" =>
             /\ state = "SafetyCheck"
             /\ state' = "Compressing"
             /\ \E i \in 1..Len(queue) :
                   /\ BecameCompressing = {i}
                   /\ queue'[i].id = ret'.job[1].id
                   /\ queue'[i].game_path = ret'.job[1].game_path]_vars

\* the ready jobs of a kind, and the earliest of a set of queue positions
ReadyOfKind(kind) ==
    {i \in 1..Len(queue) : /\ queue[i].status \in {"Pending", "WaitingForIdle"}
                           /\ queue[i].kind = kind}
Earliest(positions) == CHOOSE i \in positions : \A k \in positions : i <= k

StillPending(q) ==
    \E i \in 1..Len(q) : q[i].status \in {"Pending", "WaitingForSettle", "WaitingForIdle"}

C33_CompressingHasJob ==
    state = "Compressing" =>
        Cardinality({i \in 1..Len(queue) : queue[i].status = "Compressing"}) = 1

\* C34: a tick whose is_idle argument is false returns no Compress action.
C34_CompressOnlyWhenIdle ==
    [][\A elapsed \in BOOLEAN :
          (Callable /\ tick(FALSE, elapsed)) => ret'.act # "Compress"]_vars

\* C35: tick returns no Compress action while a deadline that job_failed set is still in
\* force: the deadline is given up only by the tick that finds it reached, so a Compress
\* is returned only with no deadline set.
C35_NoCompressBeforeDeadline ==
    ret.act = "Compress" => backoff_until = <<>>

\* the keys of the entries in the file at the journal path
OnDiskKeys == IF file = <<>> THEN {} ELSE {file[1].data[i].idempotency_key : i \in 1..Len(file[1].data)}

\* C36: in the worker loop, when tick returns Compress for a job, the file at the journal
\* path holds the entry of that job.
C36_FlushedBeforeCompress ==
    [][(WTick /\ ret'.act = "Compress") => ret'.job[1].idempotency_key \in OnDiskKeys]_vars

\* ------------------------------------- installs that fill the queue

\* a GameInstalled event for a folder not seen before, whatever is pending
InstallMore ==
    /\ Callable
    /\ next_id < FullQueueJobs
    /\ on_event("GameInstalled", InstallPath(next_id + 1))
    /\ UNCHANGED <<alive, disk_vars, now, restarts, pre, wpc, active>>
    /\ UNCHANGED comp_vars

NextOverflow ==
    \/ InstallMore
    \/ Tick

\* an owner that is sent installs of new folders faster than they are compressed
SpecOverflow == Init /\ [][NextOverflow]_vars

\* C37: every journal entry has a job in the queue with its key that is not finished.
C37_JournalEntryHasLiveJob ==
    \A i \in 1..Len(journal) :
        \E j \in 1..Len(queue) :
            /\ queue[j].idempotency_key = journal[i].idempotency_key
            /\ queue[j].status \notin {"Completed", "Failed", "Skipped"}

\* ------------------------------------- the worker loop that is never stopped

NextLoop ==
    \/ WatcherStart
    \/ WRecvTimeout
    \/ WResult
    \/ WEvent
    \/ WEventsDone
    \/ WTick
    \/ WPersist
    \/ CompressionThread

\* the pass whose idle sample is true and whose tick finds its deadline reached
WTickIdle == WTick /\ tick(TRUE, TRUE)

\* auto_loop with no stop and no crash: the thread of a dispatched compression ends,
\* and the machine is sampled idle again and again
SpecLoopFair ==
    /\ Init
    /\ [][NextLoop]_vars
    /\ WF_vars(CompressionThread)
    /\ SF_vars(WTickIdle)

\* job k is in the queue and not finished
Unfinished(k) == \E i \in 1..Len(queue) : queue[i].id = k /\ queue[i].status \notin TerminalStatuses

\* job k is in the queue with a terminal status
Finished(k) == \E i \in 1..Len(queue) : queue[i].id = k /\ queue[i].status \in TerminalStatuses

\* job k is not in the queue
Gone(k) == \A i \in 1..Len(queue) : queue[i].id # k

\* every dispatched compression has a thread that reports
AlwaysReports == active # <<>> => active[1].result # "Disconnected"

\* C38: when the loop keeps passing, the machine is sampled idle again and again,
\* every dispatched compression reports an outcome and events stop arriving at some
\* point, a job in the queue is finished at some later point unless an Uninstalled
\* event takes it out of the queue.
C38_EveryJobEnds ==
    ([]<>(wpc = "tick") /\ []AlwaysReports /\ <>[][~WEvent]_vars)
        => \A k \in 1..MaxJobs : (Unfinished(k) ~> (Finished(k) \/ Gone(k)))

\* C39: when an operation returns Ok, files_processed equals files_total: each file of
\* the manifest was counted once, whatever the closure found for it and however the
\* handles' operations interleave.
C39_ProcessedEqualsTotal ==
    \A t \in Engines :
        op_pc[t] = "ending" /\ op_result[t] = "Ok" => files_done = manifest[t]

\* an operation over a manifest of MaxManifest files has returned Ok after another
\* handle's operation ended
C39_Witness ==
    \E t \in Engines, u \in Engines :
        /\ u # t
        /\ op_pc[t] = "ending" /\ op_result[t] = "Ok" /\ manifest[t] = MaxManifest
        /\ op_result[u] # "none"
        /\ op_pc[u] = "idle"

\* ------------------------------------- the learned DirectStorage games

\* the embedded list, lowercased
EMBEDDED_GAMES == { "e" }

\* the lowercased folder names the callers pass
LearnNames == { "a", "b", "c", "e" }

\* learn_directstorage_game up to drop(learned): the early returns, and the insert and
\* the clone under the write lock
LearnInsert(c) ==
    /\ learn_pc[c] = "idle"
    /\ \E folder_name \in LearnNames :
          IF folder_name \in EMBEDDED_GAMES \/ folder_name \in LEARNED_GAMES
          THEN UNCHANGED <<LEARNED_GAMES, games_snapshot, learn_pc>>
          ELSE /\ LEARNED_GAMES' = LEARNED_GAMES \cup {folder_name}
               /\ games_snapshot' = [games_snapshot EXCEPT ![c] = LEARNED_GAMES']
               /\ learn_pc' = [learn_pc EXCEPT ![c] = "send"]
    /\ UNCHANGED <<SAVE_QUEUE, save_rx, writer_pc, latest, learned_file, not_learn>>

\* SAVE_QUEUE.as_ref() by the first caller: the LazyLock spawns the writer thread or not
SaveQueueForce(c) ==
    /\ learn_pc[c] = "send"
    /\ SAVE_QUEUE = "uninit"
    /\ \E spawned \in BOOLEAN : SAVE_QUEUE' = IF spawned THEN "Some" ELSE "None"
    /\ UNCHANGED <<LEARNED_GAMES, save_rx, learn_pc, games_snapshot, writer_pc, latest,
                   learned_file, not_learn>>

\* tx.send(games_snapshot): blocks while the channel holds a snapshot
LearnSend(c) ==
    /\ learn_pc[c] = "send"
    /\ SAVE_QUEUE = "Some"
    /\ Len(save_rx) < 1
    /\ save_rx' = Append(save_rx, games_snapshot[c])
    /\ learn_pc' = [learn_pc EXCEPT ![c] = "idle"]
    /\ UNCHANGED <<LEARNED_GAMES, SAVE_QUEUE, games_snapshot, writer_pc, latest,
                   learned_file, not_learn>>

\* no writer thread: save_learned_games(&games_snapshot) by the caller, its error logged
LearnSaveSync(c) ==
    /\ learn_pc[c] = "send"
    /\ SAVE_QUEUE = "None"
    /\ \E written \in BOOLEAN :
          learned_file' = IF written THEN games_snapshot[c] ELSE learned_file
    /\ learn_pc' = [learn_pc EXCEPT ![c] = "idle"]
    /\ UNCHANGED <<LEARNED_GAMES, SAVE_QUEUE, save_rx, games_snapshot, writer_pc, latest,
                   not_learn>>

\* recv_latest_snapshot: rx.recv() returns the oldest snapshot in the channel
WriterRecv ==
    /\ SAVE_QUEUE = "Some"
    /\ writer_pc = "recv"
    /\ save_rx # <<>>
    /\ latest' = <<Head(save_rx)>>
    /\ save_rx' = Tail(save_rx)
    /\ writer_pc' = "drain"
    /\ UNCHANGED <<LEARNED_GAMES, SAVE_QUEUE, learn_pc, games_snapshot, learned_file,
                   not_learn>>

\* recv_latest_snapshot: the while loop over rx.try_recv()
WriterTryRecv ==
    /\ writer_pc = "drain"
    /\ IF save_rx # <<>>
       THEN /\ latest' = <<Head(save_rx)>>
            /\ save_rx' = Tail(save_rx)
            /\ UNCHANGED writer_pc
       ELSE /\ writer_pc' = "save"
            /\ UNCHANGED <<latest, save_rx>>
    /\ UNCHANGED <<LEARNED_GAMES, SAVE_QUEUE, learn_pc, games_snapshot, learned_file,
                   not_learn>>

\* save_worker: save_learned_games(&snapshot), its error logged
WriterSave ==
    /\ writer_pc = "save"
    /\ \E written \in BOOLEAN :
          learned_file' = IF written THEN latest[1] ELSE learned_file
    /\ writer_pc' = "recv"
    /\ UNCHANGED <<LEARNED_GAMES, SAVE_QUEUE, save_rx, learn_pc, games_snapshot, latest,
                   not_learn>>

NextLearn ==
    \/ \E c \in LearnCallers : LearnInsert(c)
    \/ \E c \in LearnCallers : SaveQueueForce(c)
    \/ \E c \in LearnCallers : LearnSend(c)
    \/ \E c \in LearnCallers : LearnSaveSync(c)
    \/ WriterRecv
    \/ WriterTryRecv
    \/ WriterSave

\* threads calling learn_directstorage_game, and the writer thread
SpecLearn == Init /\ [][NextLearn]_vars

\* no caller holds a snapshot it has not sent, the channel is empty, and the writer
\* thread waits in recv after a write that went through
WriterDrained ==
    /\ SAVE_QUEUE = "Some"
    /\ \A c \in LearnCallers : learn_pc[c] = "idle"
    /\ save_rx = <<>>
    /\ writer_pc = "recv"
    /\ latest # <<>>
    /\ learned_file = latest[1]

\* C40: once the writer thread has drained its queue, the file holds every folder name
\* of the in-memory learned set.
C40_FileHoldsLearned ==
    WriterDrained => LEARNED_GAMES \subseteq learned_file

====
